---- MODULE Spec2Model ----
(***************************************************************************)
(* Bottom-up predicate induction (predicate_induction.py, predicate.py).   *)
(* The engine keeps three score-sorted lists (frontier, accepted,          *)
(* rejected); a search call pops the frontier, derives children by         *)
(* Conjunction.merge and accepts or rejects the popped predicate; the      *)
(* finaliser greedily merges the frontier and merges it with accepted.     *)
(*                                                                         *)
(* Python None is the empty sequence, an optional value x is <<x>>.        *)
(* Column values are small integers, for which list(set(...)) in           *)
(* Conjunction.merge yields the ascending list: a value list is modelled   *)
(* by its set.  An entry of an adjacency list is always a base predicate   *)
(* {column: [v]} of that column and is modelled by v.                      *)
(***************************************************************************)
EXTENDS Integers, Sequences, FiniteSets, TLC

None == <<>>

Some(x) == <<x>>

\* ---- bounds of the model ------------------------------------------------
\* scores returned by score_f range over 0..MaxScore
MaxScore == 2

\* the ordinal column of the one-column table takes the values 0..MaxVal
MaxVal == 2

\* maxiters, when given, ranges over 0..MaxIters
MaxIters == 1

\* no call on the explored tables runs MaxLoop iterations
MaxLoop == 16

\* the longest list passed as an argument
MaxList == 2

\* the scores of the searches with a raised threshold range over 0..MaxWide
MaxWide == 4

\* the tables of the base construction have at most MaxRows rows
MaxRows == 3

\* and their first column takes the values 0..MaxBin
MaxBin == 3

\* the number of bins a numeric column is cut into (Tabular(num_bins=NumBins))
NumBins == 2

Scores == 0 .. MaxScore

\* ---- Data (data_type.py) ------------------------------------------------
\* sorted() order of the column names
ColumnOrder == <<"a", "b", "c">>

\* a table with one ordinal column a = 0..MaxVal, one row per value
TableA ==
    [columns |-> <<"a">>,
     dtypes  |-> [a |-> "ordinal"],
     rows    |-> [i \in 1 .. (MaxVal + 1) |-> [a |-> i - 1]]]

\* a table with an ordinal column a and a nominal column b
TableAB ==
    [columns |-> <<"a", "b">>,
     dtypes  |-> [a |-> "ordinal", b |-> "nominal"],
     rows    |-> <<[a |-> 0, b |-> 0], [a |-> 1, b |-> 0], [a |-> 1, b |-> 1]>>]

\* three nominal columns: the rows (a, b, c) = (0, 0, 0), (0, 1, 1)
TableABC ==
    [columns |-> <<"a", "b", "c">>,
     dtypes  |-> [a |-> "nominal", b |-> "nominal", c |-> "nominal"],
     rows    |-> <<[a |-> 0, b |-> 0, c |-> 0], [a |-> 0, b |-> 1, c |-> 1]>>]

Range(s) == {s[i] : i \in 1 .. Len(s)}

Min(S) == CHOOSE x \in S : \A y \in S : x <= y

\* sorted(data[column].unique())
RECURSIVE SortedSeq(_)
SortedSeq(S) ==
    IF S = {} THEN <<>> ELSE <<Min(S)>> \o SortedSeq(S \ {Min(S)})

unique(data, column) == {data.rows[i][column] : i \in 1 .. Len(data.rows)}

\* data[column].isin(values): the rows whose value of column lies in values
isin(data, column, values) ==
    {i \in 1 .. Len(data.rows) : data.rows[i][column] \in values}

AllRows(data) == 1 .. Len(data.rows)

\* ---- Predicate / Conjunction (predicate.py) -----------------------------
\* Predicate.keys: sorted(column_to_values.keys())
keys(p) == SelectSeq(ColumnOrder, LAMBDA c : c \in DOMAIN p.column_to_values)

\* a mask of the rows that some column admits
get_mask_from_column_to_mask_any(data, column_to_mask) ==
    {i \in AllRows(data) : \E c \in DOMAIN column_to_mask : i \in column_to_mask[c]}

\* Conjunction.get_mask_from_column_to_mask: column_to_mask.all(axis=1)
get_mask_from_column_to_mask(data, column_to_mask) ==
    {i \in AllRows(data) : \A c \in DOMAIN column_to_mask : i \in column_to_mask[c]}

\* Conjunction.__eq__: equal column_to_values
Eq(p, q) == p.column_to_values = q.column_to_values

\* the base predicate {column: [v]}, as an entry of an adjacency list
IsBaseOf(p, column, v) ==
    /\ DOMAIN p.column_to_values = {column}
    /\ p.column_to_values[column] = {v}

\* Predicate.is_adjacent: predicate in self.adjacent[key]
is_adjacent(self, key, predicate) ==
    /\ key \in DOMAIN self.adjacent
    /\ \E j \in 1 .. Len(self.adjacent[key]) :
           IsBaseOf(predicate, key, self.adjacent[key][j])

\* Predicate.is_adjacent_all over the given keys
is_adjacent_all(self, predicate, ks) ==
    \A j \in 1 .. Len(ks) : is_adjacent(self, ks[j], predicate)

\* containment along a column that leaves out equal value sets
is_contained_key_proper(self, column, predicate) ==
    /\ column \in DOMAIN self.column_to_values
    /\ column \in DOMAIN predicate.column_to_values
    /\ self.column_to_values[column] \subseteq predicate.column_to_values[column]
    /\ self.column_to_values[column] # predicate.column_to_values[column]

\* Conjunction.is_contained_key
is_contained_key(self, column, predicate) ==
    /\ column \in DOMAIN self.column_to_values
    /\ column \in DOMAIN predicate.column_to_values
    /\ self.column_to_values[column] \subseteq predicate.column_to_values[column]

\* Predicate.is_contained with keys = predicate.keys
is_contained(self, predicate) ==
    \A key \in DOMAIN predicate.column_to_values :
        is_contained_key(self, key, predicate)

\* the adjacency list of p along column ([] when the key is absent)
AdjacentOf(p, column) ==
    IF column \in DOMAIN p.adjacent THEN p.adjacent[column] ELSE <<>>

\* a chain in which the i-th value is set adjacent to the (i-1)-th only
ChainAdjacent_oneway(data, column, v) ==
    LET lower == {w \in unique(data, column) : w < v}
    IN  IF lower = {} THEN <<>> ELSE <<CHOOSE w \in lower : \A x \in lower : x <= w>>

\* the chain of Conjunction.bottom_up_init: the i-th of the sorted values of
\* an ordinal column is set adjacent to the (i-1)-th, and the (i-1)-th to the
\* i-th (set_adjacent); the adjacency list of the predicate of value v
ChainAdjacent(data, column, v) ==
    LET lower == {w \in unique(data, column) : w < v}
        upper == {w \in unique(data, column) : w > v}
    IN  (IF lower = {} THEN <<>>
         ELSE <<CHOOSE w \in lower : \A x \in lower : x <= w>>)
        \o (IF upper = {} THEN <<>> ELSE <<Min(upper)>>)

\* Conjunction(column_to_values={column: [val]}, data, is_base=True) with the
\* adjacency that bottom_up_init installs
BasePredicate(data, column, v) ==
    [column_to_values |-> (column :> {v}),
     column_to_mask   |-> (column :> isin(data, column, {v})),
     mask             |-> isin(data, column, {v}),
     adjacent         |-> IF data.dtypes[column] = "ordinal"
                             /\ ChainAdjacent(data, column, v) # <<>>
                          THEN (column :> ChainAdjacent(data, column, v))
                          ELSE <<>>,
     is_base          |-> TRUE,
     score            |-> None]

\* Conjunction.bottom_up_init: the base predicates of one column
ColumnPredicates(data, column) ==
    LET vals == SortedSeq(unique(data, column))
    IN  [i \in 1 .. Len(vals) |-> BasePredicate(data, column, vals[i])]

RECURSIVE bottom_up_init_from(_, _)
bottom_up_init_from(data, i) ==
    IF i > Len(data.columns) THEN <<>>
    ELSE ColumnPredicates(data, data.columns[i]) \o bottom_up_init_from(data, i + 1)

\* Conjunction.bottom_up_init(data_obj, columns = all columns)
bottom_up_init(data) == bottom_up_init_from(data, 1)

\* a merge that keeps the adjacent predicates the other operand contains
MergeAdjacentShared_unfiltered(self, predicate, column) ==
    SelectSeq(self.adjacent[column],
              LAMBDA v : v \notin Range(AdjacentOf(predicate, column)))
    \o
    SelectSeq(AdjacentOf(predicate, column),
              LAMBDA v : v \notin Range(self.adjacent[column]))

\* the adjacency list of the merge along a column both operands have
MergeAdjacentShared(self, predicate, column) ==
    SelectSeq(self.adjacent[column],
              LAMBDA v : /\ v \notin predicate.column_to_values[column]
                         /\ v \notin Range(AdjacentOf(predicate, column)))
    \o
    SelectSeq(AdjacentOf(predicate, column),
              LAMBDA v : /\ v \notin self.column_to_values[column]
                         /\ v \notin Range(self.adjacent[column]))

\* the adjacency list of the merge along a column only the argument has
\* (taken only when self.adjacent has that column)
MergeAdjacentNew(self, predicate, column) ==
    SelectSeq(AdjacentOf(predicate, column),
              LAMBDA v : ~IsBaseOf(self, column, v))

\* a merge that keeps its own mask on a column both operands have
MergeColumnMask_own(self, predicate, column) == self.column_to_mask[column]

\* merge, line 361: the mask of the merge on a column both operands have
\* (column_to_mask[column] | predicate.column_to_mask[column])
MergeColumnMask(self, predicate, column) ==
    self.column_to_mask[column] \cup predicate.column_to_mask[column]

\* Conjunction.merge
merge(data, self, predicate) ==
    LET cs  == DOMAIN self.column_to_values
        cp  == DOMAIN predicate.column_to_values
        ctv == [c \in cs \cup cp |->
                  IF c \notin cs THEN predicate.column_to_values[c]
                  ELSE IF c \in cp
                       THEN predicate.column_to_values[c] \cup self.column_to_values[c]
                       ELSE self.column_to_values[c]]
        ctm == [c \in cs \cup cp |->
                  IF c \notin cs THEN predicate.column_to_mask[c]
                  ELSE IF c \in cp
                       THEN MergeColumnMask(self, predicate, c)
                       ELSE self.column_to_mask[c]]
        adj == [c \in DOMAIN self.adjacent |->
                  IF c \in cp
                  THEN IF c \notin cs
                       THEN MergeAdjacentNew(self, predicate, c)
                       ELSE MergeAdjacentShared(self, predicate, c)
                  ELSE self.adjacent[c]]
    IN  [column_to_values |-> ctv,
         column_to_mask   |-> ctm,
         mask             |-> get_mask_from_column_to_mask(data, ctm),
         adjacent         |-> adj,
         is_base          |-> FALSE,
         score            |-> None]

\* a merge that writes to the dictionaries of its receiver
merge_operands_in_place(data, self, predicate) ==
    <<[self EXCEPT !.column_to_values = merge(data, self, predicate).column_to_values,
                   !.column_to_mask = merge(data, self, predicate).column_to_mask,
                   !.adjacent = merge(data, self, predicate).adjacent],
      predicate>>

\* the operands self and predicate of self.merge(predicate) after the call:
\* merge writes to copies of column_to_values, column_to_mask and adjacent
\* (lines 350-352) and builds new lists and masks (lines 355-363)
merge_operands(data, self, predicate) == <<self, predicate>>

\* Predicate.get_score_cached: score_f is called only when no score is cached
get_score_cached(p, score_f) ==
    IF p.score = None THEN [p EXCEPT !.score = Some(score_f[p.mask])] ELSE p

\* the cached score of a scored predicate (predicate.score)
Score(p) == p.score[1]

\* ---- the value lists of column_to_values, as lists --------------------------
\* list(set(xs)) lists the slots of the hash table of the set in slot order.
\* CPython puts a small integer v (v < 32) of a set of at most four values in
\* the first slot of the sequence v mod 8, 5j + 1 mod 8, ... that is free or
\* holds v.
RECURSIVE SetProbe(_, _, _)
SetProbe(table, v, j) ==
    IF table[j] = None \/ table[j] = Some(v) THEN j
    ELSE SetProbe(table, v, (5 * j + 1) % 8)

\* set.add
set_add(table, v) == [table EXCEPT ![SetProbe(table, v, v % 8)] = Some(v)]

\* set(xs): the values of xs are added from the k-th on
RECURSIVE set_from(_, _, _)
set_from(xs, k, table) ==
    IF k > Len(xs) THEN table ELSE set_from(xs, k + 1, set_add(table, xs[k]))

\* list(s): the slots from the j-th on
RECURSIVE list_from(_, _)
list_from(table, j) ==
    IF j > 7 THEN <<>> ELSE table[j] \o list_from(table, j + 1)

\* merge, line 360: list(set(xs))
list_set(xs) == list_from(set_from(xs, 1, [j \in 0 .. 7 |-> None]), 0)

\* Conjunction.merge, lines 350-360: the column_to_values of self.merge(predicate)
merge_column_to_values(self, predicate) ==
    [c \in DOMAIN self \cup DOMAIN predicate |->
        IF c \notin DOMAIN self THEN predicate[c]
        ELSE IF c \in DOMAIN predicate THEN list_set(predicate[c] \o self[c])
             ELSE self[c]]

\* Conjunction.__eq__ on two conjunctions: the dictionaries of value lists
\* are compared
eq(self, other) == self = other

\* ---- PredicateInduction (predicate_induction.py) ------------------------
\* insert_sorted that always appends
insert_sorted_append(queue, predicate) == Append(queue, predicate)

\* PredicateInduction.insert_sorted: before the first entry of strictly lower
\* score, else at the end
insert_sorted(queue, predicate) ==
    LET lower == {j \in 1 .. Len(queue) : Score(predicate) > Score(queue[j])}
    IN  IF lower = {} THEN Append(queue, predicate)
        ELSE SubSeq(queue, 1, Min(lower) - 1) \o <<predicate>>
             \o SubSeq(queue, Min(lower), Len(queue))

RemoveAt(s, j) == SubSeq(s, 1, j - 1) \o SubSeq(s, j + 1, Len(s))

\* list.index(predicate): the first entry equal (__eq__) to predicate, 0 if none
IndexOf(s, predicate) ==
    LET hits == {j \in 1 .. Len(s) : Eq(s[j], predicate)}
    IN  IF hits = {} THEN 0 ELSE Min(hits)

\* a move that removes the predicate and inserts it nowhere
move_predicate_drop(predicate, location, destination) ==
    [location    |-> RemoveAt(location, IndexOf(location, predicate)),
     destination |-> destination]

\* PredicateInduction.move_predicate: location.remove, insert_sorted(destination)
move_predicate(predicate, location, destination) ==
    [location    |-> RemoveAt(location, IndexOf(location, predicate)),
     destination |-> insert_sorted(destination, predicate)]

\* an accepted entry of equal score subsumes the child as well
SubsumesChild_or_equal(a, child) ==
    is_contained(child, a) /\ Score(a) >= Score(child)

\* update_frontier, lines 72-73: accepted entry a subsumes the child
SubsumesChild(a, child) ==
    is_contained(child, a) /\ Score(a) > Score(child)

\* update_frontier: the loop over the children from the k-th on; st holds
\* the frontier and the two flags
RECURSIVE update_frontier_from(_, _, _, _, _)
update_frontier_from(st, parent, children, accepted, k) ==
    IF k > Len(children) THEN st
    ELSE
      LET child == children[k]
          subs  == {j \in 1 .. Len(accepted) : SubsumesChild(accepted[j], child)}
          is_subsumed == subs # {}
          subsuming_keys == Range(keys(accepted[Min(subs)]))
          next ==
            IF Score(child) > Score(parent)
            THEN IF ~is_subsumed
                 THEN [frontier |-> insert_sorted(st.frontier, child),
                       is_done |-> FALSE,
                       all_children_subsumed |-> FALSE]
                 ELSE IF ~(\E key \in Range(keys(parent)) : key \in subsuming_keys)
                      THEN [st EXCEPT !.all_children_subsumed = FALSE]
                      ELSE st
            ELSE [st EXCEPT !.all_children_subsumed = FALSE]
      IN  update_frontier_from(next, parent, children, accepted, k + 1)

\* PredicateInduction.update_frontier
update_frontier(frontier, accepted, parent, children) ==
    update_frontier_from(
        [frontier |-> frontier,
         is_done |-> TRUE,
         all_children_subsumed |-> Len(children) > 0],
        parent, children, accepted, 1)

\* the acceptance threshold, not strict
AboveThreshold_or_equal(predicate, threshold) == Score(predicate) >= threshold

\* update_accepted_rejected_predicate, line 151: the acceptance threshold
AboveThreshold(predicate, threshold) == Score(predicate) > threshold

\* update_accepted_rejected_predicate, lines 175-178: every contained
\* predicate moves from accepted to rejected
RECURSIVE MoveContained(_, _, _, _)
MoveContained(contained, k, accepted, rejected) ==
    IF k > Len(contained)
    THEN [accepted |-> accepted, rejected |-> rejected]
    ELSE LET mv == move_predicate(contained[k], accepted, rejected)
         IN  MoveContained(contained, k + 1, mv.location, mv.destination)

\* PredicateInduction.update_accepted_rejected_predicate
update_accepted_rejected_predicate(predicate, is_done, all_children_subsumed, threshold, accepted, rejected) ==
    LET same == [accepted |-> accepted, rejected |-> rejected]
        contained_predicates ==
            SelectSeq(accepted, LAMBDA p : is_contained(p, predicate))
        is_subsuming ==
            \A j \in 1 .. Len(contained_predicates) :
                ~(Score(predicate) <= Score(contained_predicates[j]))
        is_subsumed ==
            /\ predicate.is_base
            /\ \E j \in 1 .. Len(accepted) :
                   /\ is_contained(predicate, accepted[j])
                   /\ Score(predicate) <= Score(accepted[j])
    IN  IF ~is_done THEN same
        ELSE IF all_children_subsumed
        THEN [same EXCEPT !.rejected = insert_sorted(rejected, predicate)]
        ELSE IF ~AboveThreshold(predicate, threshold)
        THEN [same EXCEPT !.rejected = insert_sorted(rejected, predicate)]
        ELSE IF ~is_subsuming
        THEN [same EXCEPT !.rejected = insert_sorted(rejected, predicate)]
        ELSE IF ~is_subsumed
        THEN MoveContained(contained_predicates, 1,
                           insert_sorted(accepted, predicate), rejected)
        ELSE MoveContained(contained_predicates, 1,
                           accepted, insert_sorted(rejected, predicate))

\* ---- BottomUp: the child generators -------------------------------------
\* merge_predicate_candidates, lines 451-452: every candidate is merged and
\* the merge scored
MergedCandidates(data, score_f, predicate, candidate_predicates) ==
    [j \in 1 .. Len(candidate_predicates) |->
        get_score_cached(merge(data, predicate, candidate_predicates[j]), score_f)]

\* merge_predicate_candidates, line 455: the merge is a child
IsChild(merged_predicate, predicate) == Score(merged_predicate) > Score(predicate)

\* BottomUp.merge_predicate_candidates
merge_predicate_candidates(data, score_f, predicate, candidate_predicates) ==
    SelectSeq(MergedCandidates(data, score_f, predicate, candidate_predicates),
              LAMBDA m : IsChild(m, predicate))

\* candidates of every column instead of the adjacent predicates along key
ExpandCandidates_all(data, predicate, key) == bottom_up_init(data)

\* the candidates of expand_predicate_key: predicate.adjacent.get(key)
ExpandCandidates(data, predicate, key) ==
    LET adj == AdjacentOf(predicate, key)
    IN  [j \in 1 .. Len(adj) |-> BasePredicate(data, key, adj[j])]

\* the candidates of refine_predicate_key: key_to_base_predicates[key]
RefineCandidates(base_predicates, key) ==
    SelectSeq(base_predicates, LAMBDA p : keys(p) = <<key>>)

\* the lists of candidates of expand_predicate, one per key of the predicate
ExpandCandidateLists(data, predicate) ==
    [j \in 1 .. Len(keys(predicate)) |->
        ExpandCandidates(data, predicate, keys(predicate)[j])]

\* candidate lists of every key of self.keys, also those of the predicate
RefineCandidateLists_all_keys(base_predicates, self_keys, predicate) ==
    [j \in 1 .. Len(self_keys) |-> RefineCandidates(base_predicates, self_keys[j])]

\* the lists of candidates of refine_predicate, one per key of self.keys
\* that the predicate lacks, in the order of self.keys
RefineCandidateLists(base_predicates, self_keys, predicate) ==
    LET ks == SelectSeq(self_keys,
                        LAMBDA key : key \notin DOMAIN predicate.column_to_values)
    IN  [j \in 1 .. Len(ks) |-> RefineCandidates(base_predicates, ks[j])]

\* candidate lists in which expand_refine_predicate refines twice
CandidateLists_refine_twice(data, base_predicates, self_keys, update_f, predicate) ==
    IF update_f = "expand" THEN ExpandCandidateLists(data, predicate)
    ELSE IF update_f = "refine"
    THEN RefineCandidateLists(base_predicates, self_keys, predicate)
    ELSE ExpandCandidateLists(data, predicate)
         \o RefineCandidateLists(base_predicates, self_keys, predicate)
         \o RefineCandidateLists(base_predicates, self_keys, predicate)

\* the candidate lists of update_f: expand_predicate, refine_predicate or
\* expand_refine_predicate (expand first, then refine)
CandidateLists(data, base_predicates, self_keys, update_f, predicate) ==
    IF update_f = "expand" THEN ExpandCandidateLists(data, predicate)
    ELSE IF update_f = "refine"
    THEN RefineCandidateLists(base_predicates, self_keys, predicate)
    ELSE ExpandCandidateLists(data, predicate)
         \o RefineCandidateLists(base_predicates, self_keys, predicate)

\* BottomUp.apply_all_keys: the children of every key, concatenated
RECURSIVE apply_all_keys(_, _, _, _, _)
apply_all_keys(data, score_f, predicate, lists, k) ==
    IF k > Len(lists) THEN <<>>
    ELSE merge_predicate_candidates(data, score_f, predicate, lists[k])
         \o apply_all_keys(data, score_f, predicate, lists, k + 1)

\* the masks score_f is called on while the children are generated
RECURSIVE CandidateMasks(_, _, _, _)
CandidateMasks(data, predicate, lists, k) ==
    IF k > Len(lists) THEN {}
    ELSE {merge(data, predicate, lists[k][j]).mask : j \in 1 .. Len(lists[k])}
         \cup CandidateMasks(data, predicate, lists, k + 1)

\* ---- the finaliser ---------------------------------------------------------
\* PredicateInduction.get_key_to_predicates: one bucket per tuple(keys), in
\* the order of first occurrence (dict order), from the k-th predicate on
RECURSIVE get_key_to_predicates_from(_, _, _)
get_key_to_predicates_from(predicates, k, buckets) ==
    IF k > Len(predicates) THEN buckets
    ELSE
      LET key == keys(predicates[k])
          hit == {j \in 1 .. Len(buckets) : buckets[j].keys = key}
      IN  get_key_to_predicates_from(predicates, k + 1,
            IF hit = {}
            THEN Append(buckets, [keys |-> key, predicates |-> <<predicates[k]>>])
            ELSE [buckets EXCEPT ![Min(hit)].predicates = Append(@, predicates[k])])

get_key_to_predicates(predicates) ==
    get_key_to_predicates_from(predicates, 1, <<>>)

\* greedy_merge_predicate, line 204: the merge is taken
MergeKept(merged_predicate, predicate) == Score(merged_predicate) >= Score(predicate)

\* PredicateInduction.greedy_merge_predicate, the loop from index k on.
\* A candidate that is not adjacent reaches p.is_subsumed (line 207), which
\* no class defines: AttributeError.
RECURSIVE greedy_merge_predicate_from(_, _, _, _, _, _)
greedy_merge_predicate_from(data, score_f, ks, predicate, predicates, k) ==
    IF k > Len(predicates)
    THEN [error |-> None, predicate |-> predicate, predicates |-> predicates]
    ELSE
      LET p == predicates[k]
          merged_predicate == get_score_cached(merge(data, predicate, p), score_f)
      IN  IF is_adjacent_all(predicate, p, ks)
          THEN IF MergeKept(merged_predicate, predicate)
               THEN greedy_merge_predicate_from(data, score_f, ks, merged_predicate,
                                                RemoveAt(predicates, k), 1)
               ELSE greedy_merge_predicate_from(data, score_f, ks, predicate,
                                                predicates, k + 1)
          ELSE [error |-> Some("AttributeError"),
                predicate |-> predicate, predicates |-> predicates]

greedy_merge_predicate(data, score_f, ks, predicate, predicates) ==
    greedy_merge_predicate_from(data, score_f, ks, predicate, predicates, 1)

\* a popped predicate at the threshold is emitted as well
AboveConditional_or_equal(predicate, threshold) == Score(predicate) >= threshold

\* greedy_merge, line 228: the popped predicate is coalesced and emitted
AboveConditional(predicate, threshold) == Score(predicate) > threshold

\* PredicateInduction.greedy_merge (the cap of 100000 rounds is never reached:
\* every round pops a predicate)
RECURSIVE greedy_merge(_, _, _, _, _, _)
greedy_merge(data, score_f, ks, predicates, threshold, merged_predicates) ==
    IF Len(predicates) = 0
    THEN [error |-> None, value |-> merged_predicates]
    ELSE
      LET predicate == Head(predicates)
          r == greedy_merge_predicate(data, score_f, ks, predicate, Tail(predicates))
      IN  IF AboveConditional(predicate, threshold)
          THEN IF r.error # None
               THEN [error |-> r.error, value |-> <<>>]
               ELSE greedy_merge(data, score_f, ks, r.predicates, threshold,
                                 Append(merged_predicates, r.predicate))
          ELSE greedy_merge(data, score_f, ks, Tail(predicates), threshold,
                            merged_predicates)

\* PredicateInduction.greedy_merge_frontier, the loop over the buckets from
\* the k-th on.  The pre-prune loop runs once per entry of
\* self.conditionally_accepted and calls is_contained_key with one argument
\* (line 269): TypeError when that list is not empty.
RECURSIVE greedy_merge_frontier_from(_, _, _, _, _, _, _)
greedy_merge_frontier_from(data, score_f, buckets, k, conditionally_accepted, threshold, merged_predicates) ==
    IF k > Len(buckets)
    THEN [error |-> None, value |-> merged_predicates]
    ELSE IF Len(conditionally_accepted) > 0
    THEN [error |-> Some("TypeError"), value |-> <<>>]
    ELSE
      LET r == greedy_merge(data, score_f, buckets[k].keys, buckets[k].predicates,
                            threshold, <<>>)
      IN  IF r.error # None THEN r
          ELSE greedy_merge_frontier_from(data, score_f, buckets, k + 1,
                                          conditionally_accepted, threshold,
                                          merged_predicates \o r.value)

greedy_merge_frontier(data, score_f, frontier, conditionally_accepted, threshold) ==
    greedy_merge_frontier_from(data, score_f, get_key_to_predicates(frontier), 1,
                               conditionally_accepted, threshold, <<>>)

\* PredicateInduction.get_conditionally_accepted
get_conditionally_accepted(data, score_f, frontier, conditionally_accepted, conditional_threshold) ==
    IF conditional_threshold # None
    THEN greedy_merge_frontier(data, score_f, frontier, conditionally_accepted,
                               conditional_threshold[1])
    ELSE [error |-> None, value |-> <<>>]

\* merge_predicates, line 310: the two predicates are containment-related
Related(a, b) == is_contained(a, b) \/ is_contained(b, a)

\* predicates_b[j] loses only against a strictly higher score
DropsB_strict(a, b) == Related(a, b) /\ Score(a) > Score(b)

\* merge_predicates, lines 311-314: predicates_b[j] loses against
\* predicates_a[i]; otherwise predicates_a[i] loses if it scores lower
DropsB(a, b) == Related(a, b) /\ Score(a) >= Score(b)

DropsA(a, b) == Related(a, b) /\ ~(Score(a) >= Score(b)) /\ Score(b) >= Score(a)

RECURSIVE InsertAllSorted(_, _, _)
InsertAllSorted(queue, predicates, k) ==
    IF k > Len(predicates) THEN queue
    ELSE InsertAllSorted(insert_sorted(queue, predicates[k]), predicates, k + 1)

\* merge_predicates, keep_a[i] and keep_b[j] after the double loop
KeepA(a, predicates_b) ==
    ~\E j \in 1 .. Len(predicates_b) : DropsA(a, predicates_b[j])

KeepB(b, predicates_a) ==
    ~\E i \in 1 .. Len(predicates_a) : DropsB(predicates_a[i], b)

\* PredicateInduction.merge_predicates
merge_predicates(predicates_a, predicates_b) ==
    InsertAllSorted(
        InsertAllSorted(<<>>,
            SelectSeq(predicates_a, LAMBDA a : KeepA(a, predicates_b)), 1),
        SelectSeq(predicates_b, LAMBDA b : KeepB(b, predicates_a)), 1)

\* PredicateInduction.get_predicates
get_predicates(data, score_f, frontier, accepted, conditionally_accepted, conditional_threshold) ==
    LET ca == get_conditionally_accepted(data, score_f, frontier,
                                         conditionally_accepted, conditional_threshold)
    IN  IF ca.error # None THEN ca
        ELSE [error |-> None, value |-> merge_predicates(accepted, ca.value)]

\* a finaliser that stores what get_conditionally_accepted returns in
\* self.conditionally_accepted
get_predicates_state_stored(frontier, accepted, rejected, conditionally_accepted, ca) ==
    [frontier               |-> frontier,
     accepted               |-> accepted,
     rejected               |-> rejected,
     conditionally_accepted |-> IF ca.error = None THEN ca.value
                                ELSE conditionally_accepted]

\* the lists of the engine after get_predicates, ca being what
\* get_conditionally_accepted has returned or raised: get_key_to_predicates
\* appends the entries of the frontier to new lists (lines 237-244) and
\* greedy_merge pops from the pruned copy of such a list (lines 273, 227);
\* the result of get_conditionally_accepted is a local variable (line 352);
\* merge_predicates inserts into a new list (lines 300-309)
get_predicates_state(frontier, accepted, rejected, conditionally_accepted, ca) ==
    [frontier               |-> frontier,
     accepted               |-> accepted,
     rejected               |-> rejected,
     conditionally_accepted |-> conditionally_accepted]

\* the masks score_f can be called on while predicate is coalesced with
\* predicates (every merge greedy_merge_predicate can form)
RECURSIVE GreedyMasks(_, _, _, _)
GreedyMasks(data, ks, predicate, predicates) ==
    UNION {IF is_adjacent_all(predicate, predicates[j], ks)
           THEN {merge(data, predicate, predicates[j]).mask}
                \cup GreedyMasks(data, ks, merge(data, predicate, predicates[j]),
                                 RemoveAt(predicates, j))
           ELSE {} : j \in 1 .. Len(predicates)}

\* the masks score_f can be called on by get_predicates
FinaliserMasks(data, frontier, conditional_threshold) ==
    IF conditional_threshold = None THEN {}
    ELSE LET buckets == get_key_to_predicates(frontier)
         IN  UNION {UNION {GreedyMasks(data, buckets[k].keys,
                                       buckets[k].predicates[j],
                                       RemoveAt(buckets[k].predicates, j))
                           : j \in 1 .. Len(buckets[k].predicates)}
                    : k \in 1 .. Len(buckets)}

\* ---- the main loop ----------------------------------------------------------
Max(x, y) == IF x >= y THEN x ELSE y

\* PredicateInduction.get_max_score (both lists are not empty)
get_max_score(frontier, accepted) == Max(Score(frontier[1]), Score(accepted[1]))

\* get_first_index: frontier.index(predicate) succeeds for every predicate of
\* the argument (a missing one raises ValueError)
AllInFrontier(frontier, predicates) ==
    IF predicates = None THEN TRUE
    ELSE \A j \in 1 .. Len(predicates[1]) : IndexOf(frontier, predicates[1][j]) # 0

\* sorted(predicates, key=score, reverse=True)[0]: the first predicate of the
\* highest score
FirstBest(ps) ==
    ps[Min({j \in 1 .. Len(ps) : \A k \in 1 .. Len(ps) : Score(ps[j]) >= Score(ps[k])})]

\* get_first_index that takes the first predicate of the argument unsorted
get_first_index_head(frontier, predicates) ==
    IF predicates = None THEN 1 ELSE IndexOf(frontier, predicates[1][1])

\* PredicateInduction.get_first_index: the index in the frontier of the best
\* predicate of the argument, the first index (Python 0) without argument
get_first_index(frontier, predicates) ==
    IF predicates = None THEN 1 ELSE IndexOf(frontier, FirstBest(predicates[1]))

\* a pop that leaves the predicate in the frontier
pop_keep(frontier, first_index) == frontier

\* update_accepted_rejected_function, line 350: self.frontier.pop(first_index)
pop(frontier, first_index) == RemoveAt(frontier, first_index)

\* PredicateInduction.update_accepted_rejected_function on the engine
\* e = [data, score_f, base_predicates, self_keys, frontier, accepted, rejected]
update_accepted_rejected_function(e, update_f, predicates, threshold) ==
    LET first_index == get_first_index(e.frontier, predicates)
        popped   == e.frontier[first_index]
        children == apply_all_keys(e.data, e.score_f, popped,
                        CandidateLists(e.data, e.base_predicates, e.self_keys,
                                       update_f, popped), 1)
        uf == update_frontier(pop(e.frontier, first_index), e.accepted, popped, children)
        ar == update_accepted_rejected_predicate(popped, uf.is_done,
                  uf.all_children_subsumed, threshold, e.accepted, e.rejected)
    IN  [e EXCEPT !.frontier = uf.frontier,
                  !.accepted = ar.accepted,
                  !.rejected = ar.rejected]

\* the loop condition with i <= maxiters
LoopCondition_inclusive(frontier, maxiters, i) ==
    /\ Len(frontier) > 0
    /\ IF maxiters = None THEN TRUE ELSE i <= maxiters[1]

\* get_predicates_maxiters, line 393: the loop condition
LoopCondition(frontier, maxiters, i) ==
    /\ Len(frontier) > 0
    /\ IF maxiters = None THEN TRUE ELSE i < maxiters[1]

\* get_predicates_maxiters, lines 394-396: the early stop is taken
StopsEarly(frontier, accepted, conditional_threshold) ==
    /\ conditional_threshold # None
    /\ get_max_score(frontier, accepted) > conditional_threshold[1]

\* PredicateInduction.get_predicates_maxiters from iteration i on, for a
\* score_f that is defined on every mask: what the call returns or raises
RECURSIVE get_predicates_maxiters(_, _, _, _, _, _, _, _)
get_predicates_maxiters(e, conditionally_accepted, update_f, predicates, maxiters, threshold, conditional_threshold, i) ==
    IF ~LoopCondition(e.frontier, maxiters, i)
    THEN get_predicates(e.data, e.score_f, e.frontier, e.accepted,
                        conditionally_accepted, conditional_threshold)
    ELSE IF conditional_threshold # None /\ e.accepted = <<>>
    THEN [error |-> Some("IndexError"), value |-> <<>>]
    ELSE IF StopsEarly(e.frontier, e.accepted, conditional_threshold)
    THEN get_predicates(e.data, e.score_f, e.frontier, e.accepted,
                        conditionally_accepted, conditional_threshold)
    ELSE IF ~AllInFrontier(e.frontier, predicates)
    THEN [error |-> Some("ValueError"), value |-> <<>>]
    ELSE get_predicates_maxiters(
             update_accepted_rejected_function(e, update_f, predicates, threshold),
             conditionally_accepted, update_f, predicates, maxiters, threshold,
             conditional_threshold, i + 1)

\* get_predicates_maxiters, lines 392-399, called without a
\* conditional_threshold and without the predicates argument, from iteration
\* i on and for a score_f that is defined on every mask: the engine the loop
\* leaves
RECURSIVE main_loop(_, _, _, _, _)
main_loop(e, update_f, maxiters, threshold, i) ==
    IF ~LoopCondition(e.frontier, maxiters, i) THEN e
    ELSE main_loop(update_accepted_rejected_function(e, update_f, <<>>, threshold),
                   update_f, maxiters, threshold, i + 1)

\* ---- the engine as a state machine ----------------------------------------
VARIABLES
    data,                    \* self.data: the table
    score_f,                 \* self.score_f, as far as it has been called: mask -> score
    base_predicates,         \* self.base_predicates
    self_keys,               \* BottomUp.keys: list(set(...)) of the column names
    frontier,                \* self.frontier
    accepted,                \* self.accepted
    rejected,                \* self.rejected
    conditionally_accepted,  \* self.conditionally_accepted
    pc,                      \* "idle", "loop" (in get_predicates_maxiters), "returned", "raised"
    update_f,                \* the arguments of the running call
    predicates,
    maxiters,
    threshold,
    conditional_threshold,
    i,                       \* the iteration counter of get_predicates_maxiters
    predicate,               \* the predicate popped by the last iteration of the call
    pops,                    \* the number of frontier.pop calls of the call
    result,                  \* the list returned by the last call
    exc,                     \* the exception raised by the last call
    resumed                  \* the engine has been called again

engine == <<data, base_predicates, self_keys, conditionally_accepted>>

lists == <<frontier, accepted, rejected>>

args == <<update_f, predicates, maxiters, threshold, conditional_threshold>>

vars == <<engine, score_f, lists, pc, args, i, predicate, pops, result, exc, resumed>>

\* the tables the engine is built on
Tables == {TableA, TableAB}

\* the thresholds and conditional thresholds passed to a call
Thresholds == {0}

ConditionalThresholds == {1}

UpdateFunctions == {"expand", "refine", "expand_refine"}

MaxitersArguments == {None} \cup {Some(m) : m \in 0 .. MaxIters}

ConditionalArguments == {None} \cup {Some(t) : t \in ConditionalThresholds}

\* the lists a set can be iterated as
IterationOrders(S) ==
    {s \in [1 .. Cardinality(S) -> S] : \A x \in S : \E j \in DOMAIN s : s[j] = x}

\* score_f extended by the scores of the masks it is newly called on
Extend(f, ext) ==
    [m \in DOMAIN f \cup DOMAIN ext |-> IF m \in DOMAIN f THEN f[m] ELSE ext[m]]

\* the engine, as the record the operators of the main loop take
Engine(sf) ==
    [data |-> data, score_f |-> sf, base_predicates |-> base_predicates,
     self_keys |-> self_keys, frontier |-> frontier, accepted |-> accepted,
     rejected |-> rejected]

\* PredicateInduction.__init__ and BottomUp.__init__ on the base predicates of
\* bottom_up_init, with the default (empty) accepted, rejected and
\* conditionally_accepted; score_f has been called on the base predicates
InitEngine ==
    /\ base_predicates =
          [j \in 1 .. Len(bottom_up_init(data)) |->
              get_score_cached(bottom_up_init(data)[j], score_f)]
    /\ self_keys \in IterationOrders(Range(data.columns))
    /\ frontier = InsertAllSorted(<<>>, base_predicates, 1)
    /\ accepted = <<>>
    /\ rejected = <<>>
    /\ conditionally_accepted = <<>>
    /\ pc = "idle"
    /\ update_f = "expand"
    /\ predicates = None
    /\ maxiters = None
    /\ threshold = 0
    /\ conditional_threshold = None
    /\ i = 0
    /\ predicate = None
    /\ pops = 0
    /\ result = <<>>
    /\ exc = None
    /\ resumed = FALSE

BaseMasks(d) == {p.mask : p \in Range(bottom_up_init(d))}

Init ==
    /\ data \in Tables
    /\ score_f \in [BaseMasks(data) -> Scores]
    /\ InitEngine

\* BottomUp.expand / refine / expand_refine: entry of get_predicates_maxiters
Enter ==
    /\ update_f' \in UpdateFunctions
    /\ maxiters' \in MaxitersArguments
    /\ threshold' \in Thresholds
    /\ conditional_threshold' \in ConditionalArguments
    /\ i' = 0
    /\ pops' = 0
    /\ pc' = "loop"
    /\ predicate' = None
    /\ UNCHANGED <<engine, score_f, lists, result, exc, resumed>>

\* a call without the predicates argument on a new engine
Call ==
    /\ pc = "idle"
    /\ predicates' = None
    /\ Enter

\* the call ends: what get_predicates returns or raises
Finish(sf) ==
    LET r  == get_predicates(data, sf, frontier, accepted, conditionally_accepted,
                             conditional_threshold)
        ca == get_conditionally_accepted(data, sf, frontier,
                                         conditionally_accepted, conditional_threshold)
        e  == get_predicates_state(frontier, accepted, rejected,
                                   conditionally_accepted, ca)
    IN  /\ score_f' = sf
        /\ IF r.error = None
           THEN pc' = "returned" /\ result' = r.value /\ exc' = None
           ELSE pc' = "raised" /\ result' = <<>> /\ exc' = r.error
        /\ frontier' = e.frontier
        /\ accepted' = e.accepted
        /\ rejected' = e.rejected
        /\ conditionally_accepted' = e.conditionally_accepted
        /\ UNCHANGED <<data, base_predicates, self_keys, args, i, predicate,
                       pops, resumed>>

\* get_predicates called with every score the finaliser asks for
Finalise ==
    \E ext \in [FinaliserMasks(data, frontier, conditional_threshold)
                \ DOMAIN score_f -> Scores] :
        Finish(Extend(score_f, ext))

\* get_predicates_maxiters, line 400: the loop has ended
Return ==
    /\ pc = "loop"
    /\ ~LoopCondition(frontier, maxiters, i)
    /\ Finalise

\* get_predicates_maxiters, line 395: get_max_score indexes the empty accepted
GetMaxScoreRaises ==
    /\ pc = "loop"
    /\ LoopCondition(frontier, maxiters, i)
    /\ conditional_threshold # None
    /\ accepted = <<>>
    /\ pc' = "raised"
    /\ exc' = Some("IndexError")
    /\ UNCHANGED <<engine, score_f, lists, args, i, predicate, pops, result, resumed>>

\* get_predicates_maxiters, lines 396-397: the early stop
EarlyStop ==
    /\ pc = "loop"
    /\ LoopCondition(frontier, maxiters, i)
    /\ conditional_threshold # None
    /\ accepted # <<>>
    /\ StopsEarly(frontier, accepted, conditional_threshold)
    /\ Finalise

\* the loop reaches update_accepted_rejected_function (line 398)
Iterates ==
    /\ pc = "loop"
    /\ LoopCondition(frontier, maxiters, i)
    /\ IF conditional_threshold = None THEN TRUE
       ELSE accepted # <<>> /\ ~StopsEarly(frontier, accepted, conditional_threshold)

\* the masks score_f is called on by the iteration
IterationMasks ==
    LET popped == frontier[get_first_index(frontier, predicates)]
    IN  CandidateMasks(data, popped,
            CandidateLists(data, base_predicates, self_keys, update_f, popped), 1)

\* get_predicates_maxiters, lines 398-399: one iteration of the main loop
Iterate ==
    /\ Iterates
    /\ i < MaxLoop
    /\ AllInFrontier(frontier, predicates)
    /\ \E ext \in [IterationMasks \ DOMAIN score_f -> Scores] :
          LET sf == Extend(score_f, ext)
              e  == update_accepted_rejected_function(Engine(sf), update_f,
                                                      predicates, threshold)
          IN  /\ score_f' = sf
              /\ frontier' = e.frontier
              /\ accepted' = e.accepted
              /\ rejected' = e.rejected
    /\ predicate' = Some(frontier[get_first_index(frontier, predicates)])
    /\ pops' = pops + 1
    /\ i' = i + 1
    /\ UNCHANGED <<engine, args, pc, result, exc, resumed>>

\* a first call on a new engine
Next ==
    \/ Call
    \/ Iterate
    \/ GetMaxScoreRaises
    \/ Return

Spec == Init /\ [][Next]_vars

\* a further call on the engine a returned call has left, with the same update
\* rule and threshold
CallAgain ==
    /\ pc = "returned"
    /\ ~resumed
    /\ maxiters' \in MaxitersArguments
    /\ conditional_threshold' \in ConditionalArguments
    /\ i' = 0
    /\ pops' = 0
    /\ pc' = "loop"
    /\ predicate' = None
    /\ resumed' = TRUE
    /\ UNCHANGED <<engine, score_f, lists, update_f, predicates, threshold,
                   result, exc>>

NextResumed ==
    \/ Call
    \/ Iterate
    \/ EarlyStop
    \/ GetMaxScoreRaises
    \/ Return
    \/ CallAgain

SpecResumed == Init /\ [][NextResumed]_vars

\* ---- any number of calls on one engine ------------------------------------
\* a third or later call on the engine, as CallAgain
CallFurther ==
    /\ pc = "returned"
    /\ resumed
    /\ maxiters' \in MaxitersArguments
    /\ conditional_threshold' \in ConditionalArguments
    /\ i' = 0
    /\ pops' = 0
    /\ pc' = "loop"
    /\ predicate' = None
    /\ UNCHANGED <<engine, score_f, lists, update_f, predicates, threshold,
                   result, exc, resumed>>

NextCalls ==
    \/ Call
    \/ Iterate
    \/ EarlyStop
    \/ GetMaxScoreRaises
    \/ Return
    \/ CallAgain
    \/ CallFurther

\* engines on the table of two columns
InitCalls ==
    /\ data = TableAB
    /\ score_f \in [BaseMasks(data) -> Scores]
    /\ InitEngine

SpecCalls == InitCalls /\ [][NextCalls]_vars

\* ---- a running call keeps running -----------------------------------------
Running ==
    \/ Iterate
    \/ GetMaxScoreRaises
    \/ Return

\* ENABLED <<Running>>_vars: the finaliser and an iteration are defined on
\* every state that passes their guards, and each step changes pc or i
RunningEnabled ==
    /\ pc = "loop"
    /\ \/ ~LoopCondition(frontier, maxiters, i)
       \/ conditional_threshold # None /\ accepted = <<>>
       \/ Iterates /\ AllInFrontier(frontier, predicates) /\ i < MaxLoop

\* WF_vars(Running), by its definition
RunningFair == []<>(~RunningEnabled) \/ []<><<Running>>_vars

SpecFair == Init /\ [][Next]_vars /\ RunningFair

\* ---- a score function that raises -------------------------------------------
\* update_accepted_rejected_function, lines 349-351: score_f raises on a merged
\* predicate in update_f, after the parent has been popped (line 350)
IterateScoreRaises ==
    /\ Iterates
    /\ AllInFrontier(frontier, predicates)
    /\ IterationMasks \ DOMAIN score_f # {}
    /\ frontier' = pop(frontier, get_first_index(frontier, predicates))
    /\ predicate' = Some(frontier[get_first_index(frontier, predicates)])
    /\ pops' = pops + 1
    /\ pc' = "raised"
    /\ exc' = Some("score_f")
    /\ UNCHANGED <<engine, score_f, accepted, rejected, args, i, result, resumed>>

NextRaising ==
    \/ Call
    \/ Iterate
    \/ IterateScoreRaises
    \/ GetMaxScoreRaises
    \/ Return

SpecRaising == Init /\ [][NextRaising]_vars

\* ---- calls with the predicates argument ---------------------------------------
\* the lists of at most MaxList distinct predicates of a frontier
PredicateLists(fr) ==
    {l \in UNION {[1 .. n -> Range(fr)] : n \in 1 .. MaxList} :
        \A j, k \in 1 .. Len(l) : j # k => l[j] # l[k]}

\* a call on a new engine, with or without the predicates argument
CallPredicates ==
    /\ pc = "idle"
    /\ predicates' \in {None} \cup {Some(l) : l \in PredicateLists(frontier)}
    /\ Enter

\* get_first_index, line 334: frontier.index raises on a predicate of the
\* argument that is not in the frontier
GetFirstIndexRaises ==
    /\ Iterates
    /\ ~AllInFrontier(frontier, predicates)
    /\ pc' = "raised"
    /\ exc' = Some("ValueError")
    /\ UNCHANGED <<engine, score_f, lists, args, i, predicate, pops, result, resumed>>

NextPredicates ==
    \/ CallPredicates
    \/ Iterate
    \/ GetFirstIndexRaises
    \/ GetMaxScoreRaises
    \/ Return

InitPredicates ==
    /\ data = TableA
    /\ score_f \in [BaseMasks(data) -> Scores]
    /\ InitEngine

SpecPredicates == InitPredicates /\ [][NextPredicates]_vars

\* ---- the key set iterated in different orders -----------------------------
\* engines on the table of three columns; score_f is given on every mask
InitKeys ==
    /\ data = TableABC
    /\ score_f \in [SUBSET AllRows(data) -> Scores]
    /\ InitEngine

SpecKeys == InitKeys /\ [][Next]_vars

\* the engine built from the inputs of this one, its key set iterated as ks
EngineBuilt(ks) ==
    [data |-> data, score_f |-> score_f, base_predicates |-> base_predicates,
     self_keys |-> ks, frontier |-> InsertAllSorted(<<>>, base_predicates, 1),
     accepted |-> <<>>, rejected |-> <<>>]

\* what the call of this engine returns on the engine built with ks
SameCall(ks) ==
    get_predicates_maxiters(EngineBuilt(ks), <<>>, update_f, predicates, maxiters,
                            threshold, conditional_threshold, 0)

\* ---- merge_predicates on given lists ----------------------------------------
\* predicates over the table of two columns: a in [0], b in [0], a in [0, 1],
\* a in [0] and b in [0]
MergeUniverse ==
    LET b == bottom_up_init(TableAB)
    IN  {b[1], b[3], merge(TableAB, b[1], b[2]), merge(TableAB, b[1], b[3])}

\* the lists of at most MaxList scored predicates, sorted as insert_sorted
\* keeps them
SortedLists(sf) ==
    LET U == {get_score_cached(p, sf) : p \in MergeUniverse}
    IN  {l \in UNION {[1 .. n -> U] : n \in 0 .. MaxList} :
            \A j, k \in 1 .. Len(l) : j < k => Score(l[j]) >= Score(l[k])}

InitMerge ==
    /\ data = TableAB
    /\ score_f \in [{p.mask : p \in MergeUniverse} -> Scores]
    /\ base_predicates = <<>>
    /\ self_keys = data.columns
    /\ frontier = <<>>
    /\ accepted \in SortedLists(score_f)
    /\ rejected = <<>>
    /\ conditionally_accepted \in SortedLists(score_f)
    /\ pc = "idle"
    /\ update_f = "expand"
    /\ predicates = None
    /\ maxiters = None
    /\ threshold = 0
    /\ conditional_threshold = None
    /\ i = 0
    /\ predicate = None
    /\ pops = 0
    /\ result = <<>>
    /\ exc = None
    /\ resumed = FALSE

\* merge_predicates(accepted, conditionally_accepted)
MergePredicates ==
    /\ pc = "idle"
    /\ result' = merge_predicates(accepted, conditionally_accepted)
    /\ pc' = "returned"
    /\ UNCHANGED <<engine, score_f, lists, args, i, predicate, pops, exc, resumed>>

NextMerge == MergePredicates

SpecMerge == InitMerge /\ [][NextMerge]_vars

\* ---- the claims -----------------------------------------------------------
\* p is subsumed by q: contained and not better scoring
Subsumed(p, q) == is_contained(p, q) /\ Score(p) <= Score(q)

\* C1: the list a search call returns never holds, at two distinct positions,
\* entries r1 and r2 with r1 contained by r2 and score(r1) <= score(r2).
C1_NonRedundantResult ==
    pc = "returned" =>
        \A j, k \in 1 .. Len(result) :
            j # k => ~Subsumed(result[j], result[k])

\* C2: every predicate in accepted scores strictly above the threshold of the
\* calls (the engine starts with accepted empty and the threshold is the same
\* in every call); and a call without conditional threshold returns the
\* empty list when no predicate scored so far is above the threshold.
C2_AcceptedAboveThreshold ==
    /\ \A j \in 1 .. Len(accepted) : Score(accepted[j]) > threshold
    /\ (/\ pc = "returned"
        /\ conditional_threshold = None
        /\ \A m \in DOMAIN score_f : score_f[m] <= threshold)
       => result = <<>>

\* a second call has popped a predicate while accepted and rejected both hold
\* predicates
C2_Witness ==
    /\ resumed
    /\ pops > 0
    /\ accepted # <<>>
    /\ \E j \in 1 .. Len(rejected) : Score(rejected[j]) <= threshold

TopScore ==
    IF accepted = <<>> THEN Score(frontier[1]) ELSE get_max_score(frontier, accepted)

\* C4: whenever conditional_threshold is set and, at the top of an iteration
\* with a non-empty frontier, the better of the first frontier score and the
\* first accepted score exceeds it, the call returns without popping; this
\* includes the states where accepted is still empty.
C4_EarlyStop ==
    [][(/\ pc = "loop"
        /\ LoopCondition(frontier, maxiters, i)
        /\ conditional_threshold # None
        /\ TopScore > conditional_threshold[1])
       => (pc' = "returned" /\ UNCHANGED lists)]_vars

\* C5: the call returns the same ordered list on every engine built from the
\* same table, base predicates and score function, whatever the order in
\* which the key set of BottomUp.__init__ is iterated.
C5_Deterministic ==
    pc = "returned" =>
        \A ks \in IterationOrders(Range(data.columns)) :
            SameCall(ks) = [error |-> None, value |-> result]

\* C6: a call with maxiters = m pops at most m predicates from the frontier,
\* for every m >= 0 and from every state an earlier call has left.
C6_IterationCap ==
    maxiters # None => pops <= maxiters[1]

\* a second call has stopped at its cap with predicates left in the frontier
C6_Witness ==
    /\ resumed
    /\ pc = "returned"
    /\ maxiters = Some(MaxIters)
    /\ pops = MaxIters
    /\ frontier # <<>>

\* C7: a call in which score_f raises leaves frontier, accepted and rejected
\* as they were before the failing iteration.
C7_NoPartialMutation ==
    [][exc' = Some("score_f") => UNCHANGED lists]_vars

Count(l, x) == Cardinality({j \in 1 .. Len(l) : l[j] = x})

\* some entry of l is containment-related to x and satisfies Beats
BeatenIn(l, x, Beats(_, _)) ==
    \E j \in 1 .. Len(l) :
        /\ is_contained(x, l[j]) \/ is_contained(l[j], x)
        /\ Beats(Score(l[j]), Score(x))

\* C9: merging the accepted list A with the conditionally accepted list C
\* drops an a of A iff some c of C is containment-related to it and scores
\* strictly higher, drops a c of C iff some a of A is containment-related to
\* it and scores at least as high, and outputs every other element.
C9_MergeRule ==
    pc = "returned" =>
        \A x \in Range(accepted) \cup Range(conditionally_accepted) \cup Range(result) :
            Count(result, x) =
                (IF BeatenIn(conditionally_accepted, x, LAMBDA c, a : c > a)
                 THEN 0 ELSE Count(accepted, x))
              + (IF BeatenIn(accepted, x, LAMBDA a, c : a >= c)
                 THEN 0 ELSE Count(conditionally_accepted, x))

\* a merge has dropped an element of A, dropped an element of C on a tie and
\* kept elements of both
C9_Witness ==
    /\ pc = "returned"
    /\ \E j \in 1 .. Len(accepted) : accepted[j] \notin Range(result)
    /\ \E j \in 1 .. Len(conditionally_accepted) :
          /\ conditionally_accepted[j] \notin Range(result)
          /\ \E k \in 1 .. Len(accepted) :
                /\ accepted[k] \in Range(result)
                /\ Score(accepted[k]) = Score(conditionally_accepted[j])
                /\ Related(accepted[k], conditionally_accepted[j])
    /\ \E j \in 1 .. Len(conditionally_accepted) :
          conditionally_accepted[j] \in Range(result)

\* C10: the returned list is ordered by score, non-increasing.
C10_ResultSorted ==
    pc = "returned" =>
        \A j, k \in 1 .. Len(result) : j < k => Score(result[j]) >= Score(result[k])

\* a call has returned predicates of different scores
C10_Witness ==
    /\ pc = "returned"
    /\ \E j, k \in 1 .. Len(result) : Score(result[j]) > Score(result[k])

\* C11: the list a search call returns never holds two entries that are equal
\* conjunctions (the same columns with the same value sets).
C11_DeduplicatedResult ==
    pc = "returned" =>
        \A j, k \in 1 .. Len(result) : j # k => ~Eq(result[j], result[k])

\* a call has returned, through the finaliser, a predicate of accepted of
\* which the frontier holds an equal predicate above the conditional threshold
C11_Witness ==
    /\ pc = "returned"
    /\ conditional_threshold # None
    /\ \E j \in 1 .. Len(accepted), k \in 1 .. Len(frontier) :
          /\ Eq(accepted[j], frontier[k])
          /\ Score(frontier[k]) > conditional_threshold[1]
          /\ accepted[j] \in Range(result)

\* what the coalescence of the finaliser emitted in the call that has returned
Emitted ==
    get_conditionally_accepted(data, score_f, frontier, conditionally_accepted,
                               conditional_threshold).value

\* C12: every predicate the coalescence of the finaliser emits scores strictly
\* above the conditional threshold; a bucket predicate at or below the
\* threshold is dropped and is not among the emitted ones.
C12_ConditionalBound ==
    (pc = "returned" /\ conditional_threshold # None) =>
        /\ \A j \in 1 .. Len(Emitted) : Score(Emitted[j]) > conditional_threshold[1]
        /\ \A k \in 1 .. Len(frontier) :
              Score(frontier[k]) <= conditional_threshold[1] =>
                  \A j \in 1 .. Len(Emitted) : ~Eq(Emitted[j], frontier[k])

\* the finaliser has emitted a predicate from a bucket of which it dropped
\* another one
C12_Witness ==
    /\ pc = "returned"
    /\ conditional_threshold # None
    /\ Len(Emitted) > 0
    /\ \E k \in 1 .. Len(frontier) :
          /\ Score(frontier[k]) <= conditional_threshold[1]
          /\ keys(frontier[k]) = keys(Emitted[1])

\* ---- a second engine on the base predicates of the first -------------------
\* BottomUp(data, base_predicates, g): the constructor inserts the base
\* predicates, which the first engine has scored, into the new frontier; g is
\* the scoring function of the new engine
Rebuild ==
    /\ pc = "idle"
    /\ score_f' \in [BaseMasks(data) -> Scores]
    /\ base_predicates' =
          [j \in 1 .. Len(base_predicates) |->
              get_score_cached(base_predicates[j], score_f')]
    /\ frontier' = InsertAllSorted(<<>>, base_predicates', 1)
    /\ accepted' = <<>>
    /\ rejected' = <<>>
    /\ conditionally_accepted' = <<>>
    /\ UNCHANGED <<data, self_keys, args, pc, i, predicate, pops, result, exc, resumed>>

NextRebuild == Rebuild

SpecRebuild == Init /\ [][NextRebuild]_vars

\* C13: the score an engine gets for a predicate through get_score_cached is
\* the value of the engine's scoring function on the predicate's mask, also
\* for base predicates an earlier engine has scored with another function.
C13_ScoreOfGivenFunction ==
    \A j \in 1 .. Len(frontier) :
        Score(get_score_cached(frontier[j], score_f)) = score_f[frontier[j].mask]

\* ---- Conjunction.merge on given operands -----------------------------------
\* the tables conjunctions are merged over
ConjunctionTables == {TableA, TableAB, TableABC}

\* the base predicates of a table and the merges of two of them
ConjunctionUniverse(d) ==
    LET B == Range(bottom_up_init(d))
    IN  B \cup {merge(d, a, b) : a, b \in B}

\* two conjunctions p = frontier[1] and q = frontier[2] over one table, not
\* scored
InitConjunction ==
    /\ data \in ConjunctionTables
    /\ score_f = <<>>
    /\ base_predicates = bottom_up_init(data)
    /\ self_keys = data.columns
    /\ frontier \in [1 .. 2 -> ConjunctionUniverse(data)]
    /\ accepted = <<>>
    /\ rejected = <<>>
    /\ conditionally_accepted = <<>>
    /\ pc = "idle"
    /\ update_f = "expand"
    /\ predicates = None
    /\ maxiters = None
    /\ threshold = 0
    /\ conditional_threshold = None
    /\ i = 0
    /\ predicate = None
    /\ pops = 0
    /\ result = <<>>
    /\ exc = None
    /\ resumed = FALSE

\* p.merge(q) and q.merge(p), each scored by get_predicate_score; accepted
\* holds the two merges
MergeBothWays ==
    /\ pc = "idle"
    /\ \E sf \in [{merge(data, frontier[1], frontier[2]).mask,
                   merge(data, frontier[2], frontier[1]).mask} -> Scores] :
          /\ score_f' = sf
          /\ accepted' =
                <<get_score_cached(merge(data, frontier[1], frontier[2]), sf),
                  get_score_cached(merge(data, frontier[2], frontier[1]), sf)>>
    /\ pc' = "merged"
    /\ UNCHANGED <<engine, frontier, rejected, args, i, predicate, pops, result,
                   exc, resumed>>

NextConjunction == MergeBothWays

SpecConjunction == InitConjunction /\ [][NextConjunction]_vars

BaseValues ==
    {[c \in {col} |-> <<v>>] : col \in {"a", "b"}, v \in {0, 1, 8}}

\* two base predicates p = frontier[1] and q = frontier[2]
InitValues ==
    /\ data = TableAB
    /\ score_f = <<>>
    /\ base_predicates = <<>>
    /\ self_keys = data.columns
    /\ frontier \in [1 .. 2 -> BaseValues]
    /\ accepted = <<>>
    /\ rejected = <<>>
    /\ conditionally_accepted = <<>>
    /\ pc = "idle"
    /\ update_f = "expand"
    /\ predicates = None
    /\ maxiters = None
    /\ threshold = 0
    /\ conditional_threshold = None
    /\ i = 0
    /\ predicate = None
    /\ pops = 0
    /\ result = <<>>
    /\ exc = None
    /\ resumed = FALSE

\* p.merge(q) and q.merge(p); accepted holds the two merges
MergeValues ==
    /\ pc = "idle"
    /\ accepted' = <<merge_column_to_values(frontier[1], frontier[2]),
                     merge_column_to_values(frontier[2], frontier[1])>>
    /\ pc' = "merged"
    /\ UNCHANGED <<engine, score_f, frontier, rejected, args, i, predicate, pops,
                   result, exc, resumed>>

\* one of the merges is merged with a further base predicate (a column holds
\* at most three values before, four after: the table of the set is not resized)
Accumulate ==
    /\ pc = "merged"
    /\ \E k \in 1 .. 2, b \in BaseValues :
          /\ \A c \in DOMAIN accepted[k] : Len(accepted[k][c]) <= 3
          /\ frontier' = <<accepted[k], b>>
    /\ pc' = "idle"
    /\ UNCHANGED <<engine, score_f, accepted, rejected, args, i, predicate, pops,
                   result, exc, resumed>>

NextValues == MergeValues \/ Accumulate

SpecValues == InitValues /\ [][NextValues]_vars

\* the same columns with the same set of values on each
SameValueSets(p, q) ==
    /\ DOMAIN p = DOMAIN q
    /\ \A c \in DOMAIN p : Range(p[c]) = Range(q[c])

\* C15: two conjunctions with the same columns and the same set of values on
\* each column compare equal, in whatever order merges accumulated the values;
\* p.merge(q) equals q.merge(p).
C15_EqualityOfValueSets ==
    /\ \A p, q \in Range(frontier) \cup Range(accepted) :
          SameValueSets(p, q) => eq(p, q)
    /\ pc = "merged" => eq(accepted[1], accepted[2])

\* the mask of p is the conjunction of its masks per column, and the mask of
\* a column marks the rows whose value is one of the values of that column
MaskInvariant(d, p) ==
    /\ DOMAIN p.column_to_mask = DOMAIN p.column_to_values
    /\ p.mask = {r \in AllRows(d) :
                    \A c \in DOMAIN p.column_to_values : r \in p.column_to_mask[c]}
    /\ \A c \in DOMAIN p.column_to_values :
          p.column_to_mask[c] =
              {r \in AllRows(d) : d.rows[r][c] \in p.column_to_values[c]}

\* C16: every predicate made by the base construction or by merges has a mask
\* equal to the row-wise AND of its per-column masks, and each per-column mask
\* marks exactly the rows whose value lies in the column's value set.
C16_MaskInvariant ==
    \A p \in Range(base_predicates) \cup Range(frontier) \cup Range(accepted) :
        MaskInvariant(data, p)

\* a merge over two columns with two values on one of them has been built
\* from a merge and a base predicate
C16_Witness ==
    /\ pc = "merged"
    /\ ~frontier[1].is_base
    /\ \E c \in DOMAIN accepted[1].column_to_values :
          /\ Cardinality(accepted[1].column_to_values[c]) > 1
          /\ DOMAIN accepted[1].column_to_values # {c}

\* ---- Conjunction.bottom_up_init on given tables -----------------------------
\* the tables of one to MaxRows rows over the columns a and b, each column
\* ordinal or nominal
SmallTables ==
    {[columns |-> <<"a", "b">>, dtypes |-> dt, rows |-> rs] :
        dt \in [{"a", "b"} -> {"ordinal", "nominal"}],
        rs \in UNION {[1 .. n -> [a : 0 .. MaxBin, b : 0 .. 1]] : n \in 1 .. MaxRows}}

InitTables ==
    /\ data \in SmallTables
    /\ score_f = <<>>
    /\ base_predicates = <<>>
    /\ self_keys = data.columns
    /\ frontier = <<>>
    /\ accepted = <<>>
    /\ rejected = <<>>
    /\ conditionally_accepted = <<>>
    /\ pc = "idle"
    /\ update_f = "expand"
    /\ predicates = None
    /\ maxiters = None
    /\ threshold = 0
    /\ conditional_threshold = None
    /\ i = 0
    /\ predicate = None
    /\ pops = 0
    /\ result = <<>>
    /\ exc = None
    /\ resumed = FALSE

\* base_predicates = Conjunction.bottom_up_init(data_obj, columns=[a, b])
BottomUpInit ==
    /\ pc = "idle"
    /\ base_predicates' = bottom_up_init(data)
    /\ pc' = "built"
    /\ UNCHANGED <<data, self_keys, conditionally_accepted, score_f, lists, args,
                   i, predicate, pops, result, exc, resumed>>

NextTables == BottomUpInit

SpecTables == InitTables /\ [][NextTables]_vars

\* the base predicate of column c and value v among the base predicates
BaseOf(c, v) ==
    CHOOSE p \in Range(base_predicates) : IsBaseOf(p, c, v)

\* the values next to v in the ascending order of the values of column c
Neighbours(c, v) ==
    LET vals == SortedSeq(unique(data, c))
        j == CHOOSE k \in 1 .. Len(vals) : vals[k] = v
    IN  {vals[k] : k \in {j - 1, j + 1} \cap (1 .. Len(vals))}

\* C17: after bottom_up_init the base predicates of an ordinal column are
\* adjacent along it to exactly their predecessor and their successor in
\* ascending value order (two adjacents inside, one at each end), adjacency is
\* symmetric, and the base predicates of a nominal column have no adjacents.
C17_AdjacencyChain ==
    pc = "built" =>
        \A c \in Range(data.columns) : \A v \in unique(data, c) :
            LET p == BaseOf(c, v)
            IN  IF data.dtypes[c] = "ordinal"
                THEN /\ Range(AdjacentOf(p, c)) = Neighbours(c, v)
                     /\ Len(AdjacentOf(p, c)) = Cardinality(Neighbours(c, v))
                     /\ DOMAIN p.adjacent \subseteq {c}
                     /\ \A w \in Range(AdjacentOf(p, c)) :
                           is_adjacent(BaseOf(c, w), c, p)
                ELSE DOMAIN p.adjacent = {}

\* base predicates have been built for an ordinal column of three values with
\* a gap and a nominal column of two values
C17_Witness ==
    /\ pc = "built"
    /\ data.dtypes["a"] = "ordinal"
    /\ data.dtypes["b"] = "nominal"
    /\ unique(data, "a") = {0, 2, 3}
    /\ unique(data, "b") = {0, 1}

\* ---- the child generators on a given predicate ------------------------------
\* the conjunctions a search over a table can hold: the base predicates and
\* what up to three merges with base predicates make of them
SearchUniverse(d) ==
    LET B == Range(bottom_up_init(d))
        U == ConjunctionUniverse(d)
        V == U \cup {merge(d, u, b) : u \in U, b \in B}
    IN  V \cup {merge(d, v, b) : v \in V, b \in B}

\* an engine and a predicate p = predicate[1], not scored
InitChildren ==
    /\ data \in ConjunctionTables
    /\ score_f = <<>>
    /\ base_predicates = bottom_up_init(data)
    /\ self_keys \in IterationOrders(Range(data.columns))
    /\ frontier = <<>>
    /\ accepted = <<>>
    /\ rejected = <<>>
    /\ conditionally_accepted = <<>>
    /\ pc = "idle"
    /\ update_f = "expand_refine"
    /\ predicates = None
    /\ maxiters = None
    /\ threshold = 0
    /\ conditional_threshold = None
    /\ i = 0
    /\ predicate \in {Some(p) : p \in SearchUniverse(data)}
    /\ pops = 0
    /\ result = <<>>
    /\ exc = None
    /\ resumed = FALSE

\* the children of update_f on the scored predicate p under the scoring sf
Children(sf, f, p) ==
    apply_all_keys(data, sf, p,
                   CandidateLists(data, base_predicates, self_keys, f, p), 1)

\* expand_predicate(p), refine_predicate(p) and expand_refine_predicate(p):
\* frontier, accepted and rejected hold the three lists of children
GenerateChildren ==
    /\ pc = "idle"
    /\ \E sf \in [{predicate[1].mask}
                  \cup CandidateMasks(data, predicate[1],
                          CandidateLists(data, base_predicates, self_keys,
                                         update_f, predicate[1]), 1) -> Scores] :
          /\ score_f' = sf
          /\ predicate' = Some(get_score_cached(predicate[1], sf))
          /\ frontier' = Children(sf, "expand", get_score_cached(predicate[1], sf))
          /\ accepted' = Children(sf, "refine", get_score_cached(predicate[1], sf))
          /\ rejected' = Children(sf, "expand_refine", get_score_cached(predicate[1], sf))
    /\ pc' = "generated"
    /\ UNCHANGED <<engine, args, i, pops, result, exc, resumed>>

NextChildren == GenerateChildren

SpecChildren == InitChildren /\ [][NextChildren]_vars

\* C18: every child r of refine_predicate(p) has the columns of p and at
\* least one more, and the value set of p on every column of p.
C18_RefineMonotone ==
    pc = "generated" =>
        \A j \in 1 .. Len(accepted) :
            /\ DOMAIN predicate[1].column_to_values
                  \subseteq DOMAIN accepted[j].column_to_values
            /\ DOMAIN predicate[1].column_to_values
                  # DOMAIN accepted[j].column_to_values
            /\ \A c \in DOMAIN predicate[1].column_to_values :
                  accepted[j].column_to_values[c] = predicate[1].column_to_values[c]

\* a predicate with two values on a column has been refined into a child
C18_Witness ==
    /\ pc = "generated"
    /\ Len(accepted) > 0
    /\ \E c \in DOMAIN predicate[1].column_to_values :
          Cardinality(predicate[1].column_to_values[c]) > 1

\* C19: every child e of expand_predicate(p) has exactly the columns of p, a
\* value set that includes the one of p on every column, and the value set of
\* p on all columns but one.
C19_ExpandMonotone ==
    pc = "generated" =>
        \A j \in 1 .. Len(frontier) :
            /\ DOMAIN frontier[j].column_to_values
                  = DOMAIN predicate[1].column_to_values
            /\ \A c \in DOMAIN predicate[1].column_to_values :
                  predicate[1].column_to_values[c]
                      \subseteq frontier[j].column_to_values[c]
            /\ Cardinality({c \in DOMAIN predicate[1].column_to_values :
                  frontier[j].column_to_values[c]
                      # predicate[1].column_to_values[c]}) <= 1

\* a predicate over two columns has been expanded into a child with a
\* larger value set on one of them
C19_Witness ==
    /\ pc = "generated"
    /\ Cardinality(DOMAIN predicate[1].column_to_values) > 1
    /\ \E j \in 1 .. Len(frontier) :
          \E c \in DOMAIN predicate[1].column_to_values :
              frontier[j].column_to_values[c] # predicate[1].column_to_values[c]

\* C20: the children of expand_refine_predicate(p) are the children of
\* expand_predicate(p) together with the children of refine_predicate(p), each
\* as often as in those two lists.
C20_ExpandRefineUnion ==
    pc = "generated" =>
        \A x \in Range(frontier) \cup Range(accepted) \cup Range(rejected) :
            Count(rejected, x) = Count(frontier, x) + Count(accepted, x)

\* a predicate has children by expansion and children by refinement
C20_Witness ==
    /\ pc = "generated"
    /\ Len(frontier) > 0
    /\ Len(accepted) > 0
    /\ Len(rejected) = Len(frontier) + Len(accepted)

\* ---- scenario: an anomaly on the upper values of an ordinal column ----------
\* the tables of six rows with an ordinal column a that takes each of the
\* values 0..3 and a constant column b
S3Tables ==
    {[columns |-> <<"a", "b">>,
      dtypes  |-> [a |-> "ordinal", b |-> bd],
      rows    |-> [k \in 1 .. 6 |-> [a |-> av[k], b |-> 0]]] :
        av \in {f \in [1 .. 6 -> 0 .. 3] : {f[k] : k \in 1 .. 6} = 0 .. 3},
        bd \in {"nominal", "ordinal"}}

\* the rows with anomaly = 1: those with a in {2, 3}
Anomalous(d) == {r \in AllRows(d) : d.rows[r]["a"] \in {2, 3}}

\* twice the score of the scenario, (masked rows with anomaly = 1)
\* - 0.5 * (masked rows): an integer that compares with the threshold 0 and
\* with other scores as the score does
AnomalyScore(d) ==
    [m \in SUBSET AllRows(d) |->
        2 * Cardinality(m \cap Anomalous(d)) - Cardinality(m)]

InitS3 ==
    /\ data \in S3Tables
    /\ score_f = AnomalyScore(data)
    /\ InitEngine

\* expand() with the default arguments on the new engine
CallExpand ==
    /\ pc = "idle"
    /\ update_f' = "expand"
    /\ predicates' = None
    /\ maxiters' = None
    /\ threshold' = 0
    /\ conditional_threshold' = None
    /\ i' = 0
    /\ pops' = 0
    /\ pc' = "loop"
    /\ predicate' = None
    /\ UNCHANGED <<engine, score_f, lists, result, exc, resumed>>

NextS3 == CallExpand \/ Iterate \/ Return

SpecS3 == InitS3 /\ [][NextS3]_vars

\* the values of the conjunctions of a list, in the order of the list
ValuesOf(l) == [j \in 1 .. Len(l) |-> l[j].column_to_values]

\* the scenario as stated: expand returns the one predicate a in {2, 3}
C21_OnlyUpperValues ==
    pc = "returned" => ValuesOf(result) = <<[a |-> {2, 3}]>>

\* C21: on a table of six rows with an ordinal column a over 0..3, a constant
\* column b and the anomaly on the rows with a in {2, 3}, expand with
\* threshold 0 returns a in {2, 3} alone when at most three rows are
\* anomalous, and a in {2, 3} followed by the predicate of the constant
\* column when four rows are.
C21_UpperValuesFirst ==
    pc = "returned" =>
        ValuesOf(result) =
            IF Cardinality(Anomalous(data)) <= 3
            THEN <<[a |-> {2, 3}]>>
            ELSE <<[a |-> {2, 3}], [b |-> {0}]>>

\* expand has returned on a table with three anomalous rows, on which the
\* predicate of the constant column scores 0
C21_Witness ==
    /\ pc = "returned"
    /\ Cardinality(Anomalous(data)) = 3
    /\ pops > 4

\* ---- scenario: an anomaly on two values of a nominal column -----------------
\* the tables with one nominal column a whose first three rows take the
\* values x, y and z, written 2, 3 and 0, in some order, with or without a
\* fourth row; the anomaly is on the rows with a in {x, y}
S4Tables ==
    {[columns |-> <<"a">>,
      dtypes  |-> [a |-> "nominal"],
      rows    |-> [k \in 1 .. n |-> [a |-> av[k]]]] :
        n \in 3 .. 4,
        av \in {f \in [1 .. 4 -> {0, 2, 3}] : {f[k] : k \in 1 .. 3} = {0, 2, 3}}}

InitS4 ==
    /\ data \in S4Tables
    /\ score_f = AnomalyScore(data)
    /\ InitEngine

SpecS4 == InitS4 /\ [][Next]_vars

\* C22: on a table with a nominal column a over x, y, z and the anomaly on the
\* rows with a in {x, y}, the search ends by returning a list that holds the
\* predicate a in {x, y}.
C22_MergedNominalValues ==
    pc \in {"returned", "raised"} =>
        /\ pc = "returned"
        /\ [a |-> {2, 3}] \in Range(ValuesOf(result))

\* ---- one iteration of the main loop, seen from outside ----------------------
\* the step is an iteration: a predicate is popped
Iteration == pc = "loop" /\ pops' = pops + 1

\* the frontier once the predicate of the iteration is popped
Rest == pop(frontier, get_first_index(frontier, predicates))

\* the children update_f makes of the popped predicate
PoppedChildren == Children(score_f', update_f, predicate'[1])

\* the child is to be inserted: it beats the parent and no accepted predicate
\* that contains it scores higher
Insertable(child, parent, acc) ==
    /\ Score(child) > Score(parent)
    /\ \A j \in 1 .. Len(acc) :
          ~(is_contained(child, acc[j]) /\ Score(acc[j]) > Score(child))

\* C23: an iteration inserts a child of the popped parent into the frontier
\* iff the child scores above the parent and no accepted predicate contains
\* it with a higher score; the parent is not done (neither accepted nor
\* rejected) iff some child is inserted.
C23_ChildInsertion ==
    [][Iteration =>
        LET ins == {k \in 1 .. Len(PoppedChildren) :
                       Insertable(PoppedChildren[k], predicate'[1], accepted)}
        IN  /\ \A x \in Range(frontier') \cup Range(Rest) \cup Range(PoppedChildren) :
                  Count(frontier', x) =
                      Count(Rest, x)
                      + Cardinality({k \in ins : PoppedChildren[k] = x})
            /\ (ins # {}) <=>
                  (Len(accepted') + Len(rejected') = Len(accepted) + Len(rejected))
    ]_vars

\* an iteration has kept a child of the popped predicate out of the frontier
\* because an accepted predicate subsumes it
C23_Witness ==
    /\ pc = "loop"
    /\ pops > 0
    /\ IF predicate = None THEN FALSE
       ELSE \E k \in 1 .. Len(Children(score_f, update_f, predicate[1])) :
               LET child == Children(score_f, update_f, predicate[1])[k]
               IN  /\ child \notin Range(frontier)
                   /\ \E j \in 1 .. Len(accepted) :
                         /\ accepted[j] # predicate[1]
                         /\ is_contained(child, accepted[j])
                         /\ Score(accepted[j]) > Score(child)

\* ---- expand_refine with a raised threshold ----------------------------------
\* engines on the table of two columns, scored over 0..MaxWide, whose
\* self.keys iterates in the order of the columns
InitWide ==
    /\ data = TableAB
    /\ score_f \in [BaseMasks(data) -> 0 .. MaxWide]
    /\ InitEngine
    /\ self_keys = data.columns

\* expand_refine(threshold = MaxWide - 1) on the new engine
CallExpandRefine ==
    /\ pc = "idle"
    /\ update_f' = "expand_refine"
    /\ predicates' = None
    /\ maxiters' = None
    /\ threshold' = MaxWide - 1
    /\ conditional_threshold' = None
    /\ i' = 0
    /\ pops' = 0
    /\ pc' = "loop"
    /\ predicate' = None
    /\ UNCHANGED <<engine, score_f, lists, result, exc, resumed>>

\* one iteration of the main loop, as Iterate, scored over 0..MaxWide
IterateWide ==
    /\ Iterates
    /\ i < MaxLoop
    /\ \E ext \in [IterationMasks \ DOMAIN score_f -> 0 .. MaxWide] :
          LET sf == Extend(score_f, ext)
              e  == update_accepted_rejected_function(Engine(sf), update_f,
                                                      predicates, threshold)
          IN  /\ score_f' = sf
              /\ frontier' = e.frontier
              /\ accepted' = e.accepted
              /\ rejected' = e.rejected
    /\ predicate' = Some(frontier[get_first_index(frontier, predicates)])
    /\ pops' = pops + 1
    /\ i' = i + 1
    /\ UNCHANGED <<engine, args, pc, result, exc, resumed>>

NextWide == CallExpandRefine \/ IterateWide \/ Return

SpecWide == InitWide /\ [][NextWide]_vars

\* the flags update_frontier returns in the iteration
Flags == update_frontier(Rest, accepted, predicate'[1], PoppedChildren)

\* the first accepted predicate that subsumes the child (self.accepted[i] of
\* update_frontier, line 74)
Subsuming(child, acc) ==
    acc[Min({j \in 1 .. Len(acc) : SubsumesChild(acc[j], child)})]

\* C24: a done parent p is rejected through the all_children_subsumed branch
\* only if p has a child, every child is subsumed by an accepted predicate,
\* and the keys of the subsuming accepted predicate of every child cover
\* every key of p.
C24_AllChildrenSubsumed ==
    [][(Iteration /\ Flags.is_done /\ Flags.all_children_subsumed) =>
        /\ Len(PoppedChildren) > 0
        /\ \A k \in 1 .. Len(PoppedChildren) :
              /\ \E j \in 1 .. Len(accepted) :
                    SubsumesChild(accepted[j], PoppedChildren[k])
              /\ Range(keys(predicate'[1]))
                    \subseteq Range(keys(Subsuming(PoppedChildren[k], accepted)))
    ]_vars

\* ---- calls of one iteration each, on a chosen frontier predicate ------------
\* expand(predicates=[p], maxiters=1) or refine(predicates=[p], maxiters=1)
\* for a predicate p of the frontier, on a new or a used engine
StepCall ==
    /\ pc \in {"idle", "returned"}
    /\ update_f' \in {"expand", "refine"}
    /\ \E k \in 1 .. Len(frontier) : predicates' = Some(<<frontier[k]>>)
    /\ maxiters' = Some(1)
    /\ threshold' = 0
    /\ conditional_threshold' = None
    /\ i' = 0
    /\ pops' = 0
    /\ pc' = "loop"
    /\ predicate' = None
    /\ UNCHANGED <<engine, score_f, lists, result, exc, resumed>>

NextSteps == StepCall \/ Iterate \/ Return

\* engines on the table of two columns whose self.keys iterates in the order
\* of the columns, under the score functions that give every base predicate
\* the lowest or the highest score
InitSteps ==
    /\ data = TableAB
    /\ score_f \in [BaseMasks(data) -> {0, MaxScore}]
    /\ InitEngine
    /\ self_keys = data.columns

SpecSteps == InitSteps /\ [][NextSteps]_vars

\* the popped predicate of the iteration has been inserted into accepted
Accepts ==
    Count(accepted', predicate'[1]) > Count(accepted, predicate'[1])

\* C25: an iteration removes from accepted exactly the predicates the popped
\* predicate p contains, and only when it inserts p into accepted; when p is
\* rejected, accepted is left unchanged.
C25_MovesOnlyOnAcceptance ==
    [][Iteration =>
        IF Accepts
        THEN \A x \in Range(accepted) \cup Range(accepted') \cup Range(rejected') :
                /\ Count(accepted', x) =
                      (IF is_contained(x, predicate'[1]) THEN 0 ELSE Count(accepted, x))
                      + (IF x = predicate'[1] THEN 1 ELSE 0)
                /\ Count(rejected', x) =
                      Count(rejected, x)
                      + (IF is_contained(x, predicate'[1]) THEN Count(accepted, x) ELSE 0)
        ELSE accepted' = accepted
    ]_vars

\* the adjacency of r = p.merge(q) along every column that exactly one operand
\* has and is adjacent along is the adjacency list of that operand without the
\* entries equal to the other operand
OneSidedAdjacency(r, p, q) ==
    \A c \in DOMAIN r.column_to_values :
       /\ (c \in DOMAIN p.adjacent /\ c \notin DOMAIN q.column_to_values) =>
             AdjacentOf(r, c) =
                SelectSeq(p.adjacent[c], LAMBDA v : ~IsBaseOf(q, c, v))
       /\ (c \in DOMAIN q.adjacent /\ c \notin DOMAIN p.column_to_values) =>
             AdjacentOf(r, c) =
                SelectSeq(q.adjacent[c], LAMBDA v : ~IsBaseOf(p, c, v))

\* C26: along a column of exactly one operand the merge has the adjacency of
\* that operand without the other operand, whether the column belongs to the
\* receiver or to the argument of merge.
C26_OneSidedAdjacency ==
    pc = "merged" =>
        /\ OneSidedAdjacency(accepted[1], frontier[1], frontier[2])
        /\ OneSidedAdjacency(accepted[2], frontier[2], frontier[1])

\* a list ordered by score, highest first
NonIncreasing(l) ==
    \A j, k \in 1 .. Len(l) : j < k => Score(l[j]) >= Score(l[k])

\* C27: in an engine built with empty accepted and rejected the frontier,
\* accepted and rejected are each ordered by score, highest first, after any
\* number of iterations, and insert_sorted of any of their predicates into any
\* of them gives a list one longer.
C27_SortedCollections ==
    /\ NonIncreasing(frontier)
    /\ NonIncreasing(accepted)
    /\ NonIncreasing(rejected)
    /\ \A queue \in {frontier, accepted, rejected} :
          \A p \in Range(frontier) \cup Range(accepted) \cup Range(rejected) :
             Len(insert_sorted(queue, p)) = Len(queue) + 1

\* after an iteration the frontier holds predicates of different scores and
\* so does accepted or rejected
C27_Witness ==
    /\ pops >= 1
    /\ Len(frontier) >= 2
    /\ Score(frontier[1]) > Score(frontier[Len(frontier)])
    /\ \E l \in {accepted, rejected} :
          /\ Len(l) >= 2
          /\ Score(l[1]) > Score(l[Len(l)])

\* ---- the first scan of the coalescence of the finaliser ------------------------
\* the finaliser has run with a conditional threshold and coalesces around the
\* head of the first bucket, which other predicates share
Coalesces ==
    /\ pc = "returned" \/ (pc = "raised" /\ exc # Some("IndexError"))
    /\ conditional_threshold # None
    /\ conditionally_accepted = <<>>
    /\ frontier # <<>>
    /\ Len(get_key_to_predicates(frontier)[1].predicates) >= 2
    /\ Score(get_key_to_predicates(frontier)[1].predicates[1]) > conditional_threshold[1]

\* the bucket keys, the predicate coalesced around, the remaining predicates
\* of the bucket and the outcome of greedy_merge_predicate on them
Bucket == get_key_to_predicates(frontier)[1]

Around == Bucket.predicates[1]

Remaining == Tail(Bucket.predicates)

Coalesced == greedy_merge_predicate(data, score_f, Bucket.keys, Around, Remaining)

\* C28: the scan around p completes; a first candidate q adjacent to p along
\* every bucket key with score(p.merge(q)) >= score(p) is absorbed and the scan
\* restarts around the merge on the bucket without q; a first candidate q that
\* is not so adjacent leaves the bucket when p contains it and scores at least
\* as high, and stays in the bucket otherwise.
C28_CoalescenceStep ==
    Coalesces =>
        LET q == Remaining[1]
            m == get_score_cached(merge(data, Around, q), score_f)
        IN  /\ Coalesced.error = None
            /\ IF is_adjacent_all(Around, q, Bucket.keys)
               THEN Score(m) >= Score(Around) =>
                       Coalesced = greedy_merge_predicate(data, score_f, Bucket.keys,
                                                          m, Tail(Remaining))
               ELSE IF is_contained(q, Around) /\ Score(q) <= Score(Around)
                    THEN Coalesced = greedy_merge_predicate(data, score_f, Bucket.keys,
                                                            Around, Tail(Remaining))
                    ELSE \E j \in 1 .. Len(Coalesced.predicates) :
                            Coalesced.predicates[j] = q

\* ---- predicate objects shared by merges, engines and searches ----------------
\* p.merge(q) for two base predicates p = base_predicates[j] and
\* q = base_predicates[k], scored by get_predicate_score; base_predicates holds
\* the operands as the call leaves them, result the merge
MergeOperands ==
    /\ pc = "idle"
    /\ \E j, k \in 1 .. Len(base_predicates) :
          LET r   == merge(data, base_predicates[j], base_predicates[k])
              ops == merge_operands(data, base_predicates[j], base_predicates[k])
          IN  /\ \E ext \in [{r.mask} \ DOMAIN score_f -> Scores] :
                    /\ score_f' = Extend(score_f, ext)
                    /\ result' = <<get_score_cached(r, score_f')>>
              /\ base_predicates' =
                    [n \in 1 .. Len(base_predicates) |->
                        IF n = j THEN ops[1]
                        ELSE IF n = k THEN ops[2] ELSE base_predicates[n]]
    /\ pc' = "merged"
    /\ UNCHANGED <<data, self_keys, lists, conditionally_accepted, args, i,
                   predicate, pops, exc, resumed>>

\* engines are built one after the other on the same base predicates, merges
\* are formed of the base predicates, and the last engine searches
NextObjects ==
    \/ Rebuild
    \/ MergeOperands
    \/ Call
    \/ Iterate
    \/ GetMaxScoreRaises
    \/ Return

SpecObjects == InitSteps /\ [][NextObjects]_vars

\* y is the predicate object x at a later time: keys, values, masks and
\* adjacency are those of x, and a score x has cached is still the cached score
SameObject(x, y) ==
    /\ DOMAIN y.column_to_values = DOMAIN x.column_to_values
    /\ y.column_to_values = x.column_to_values
    /\ y.column_to_mask = x.column_to_mask
    /\ y.mask = x.mask
    /\ y.adjacent = x.adjacent
    /\ y.is_base = x.is_base
    /\ x.score # None => y.score = x.score

\* C29: a merge, the construction of an engine and an iteration of the search
\* leave keys, values, per-column masks, mask and adjacency of every base
\* predicate as they are and keep a cached score; after an iteration every
\* predicate of frontier, accepted and rejected is a predicate these lists or
\* the popped predicate held before, unchanged, or a child made in the
\* iteration.
C29_PredicatesImmutable ==
    [][/\ Len(base_predicates') = Len(base_predicates)
       /\ \A j \in 1 .. Len(base_predicates) :
             SameObject(base_predicates[j], base_predicates'[j])
       /\ Iteration =>
             \A y \in Range(frontier') \cup Range(accepted') \cup Range(rejected') :
                \/ \E x \in Range(frontier) \cup Range(accepted) \cup Range(rejected) :
                      SameObject(x, y)
                \/ y \in Range(PoppedChildren)
    ]_vars

\* a second engine with another scoring function has searched: it has
\* accepted or rejected a predicate and a base predicate still carries the
\* score of the first function
C29_Witness ==
    /\ pops >= 1
    /\ Len(accepted) + Len(rejected) >= 1
    /\ \E j \in 1 .. Len(base_predicates) :
          Score(base_predicates[j]) # score_f[base_predicates[j].mask]

\* ---- Data objects and their conversion (data_type.py) -------------------------
\* Tabular.bin_numeric with num_points_per_bin = None: pd.cut into NumBins
\* intervals of equal width over [min, max], closed on the right, the lowest
\* value in the first; each row gets the rank of its interval among the
\* intervals that hold some row
bin_numeric(self, column) ==
    LET vals == unique(self, column)
        lo   == Min(vals)
        hi   == CHOOSE w \in vals : \A x \in vals : x <= w
        bin(x) == IF lo = hi \/ x = lo THEN 1
                  ELSE ((x - lo) * NumBins + (hi - lo) - 1) \div (hi - lo)
        rank(x) == Cardinality({bin(y) : y \in vals} \cap (1 .. bin(x) - 1))
    IN  [n \in 1 .. Len(self.rows) |-> rank(self.rows[n][column])]

\* Tabular.convert_data: only numeric to ordinal, None otherwise
convert_data(self, column, old_dtype, new_dtype) ==
    IF old_dtype = "numeric" /\ new_dtype = "ordinal"
    THEN Some(bin_numeric(self, column))
    ELSE None

\* a conversion that saves the shadow every time
convert_dtype_overwrite(self, key, old_dtype, new_dtype) ==
    LET converted_data == convert_data(self, key, old_dtype, new_dtype)
    IN  IF converted_data # None
        THEN [self EXCEPT
                !.original_data = Some([rows |-> self.rows, dtypes |-> self.dtypes]),
                !.rows = [n \in 1 .. Len(self.rows) |->
                             [self.rows[n] EXCEPT ![key] = converted_data[1][n]]],
                !.dtypes = [self.dtypes EXCEPT ![key] = new_dtype]]
        ELSE self

\* Data.convert_dtype: the first conversion keeps the data and dtypes as
\* original_data and original_dtypes
convert_dtype(self, key, old_dtype, new_dtype) ==
    LET converted_data == convert_data(self, key, old_dtype, new_dtype)
    IN  IF converted_data # None
        THEN [self EXCEPT
                !.original_data = IF @ = None
                                  THEN Some([rows |-> self.rows, dtypes |-> self.dtypes])
                                  ELSE @,
                !.rows = [n \in 1 .. Len(self.rows) |->
                             [self.rows[n] EXCEPT ![key] = converted_data[1][n]]],
                !.dtypes = [self.dtypes EXCEPT ![key] = new_dtype]]
        ELSE self

\* Conjunction.allowed_dtypes_map and Conjunction.allowed_dtypes
allowed_dtypes_map == [numeric |-> "ordinal"]

allowed_dtypes == {"nominal", "ordinal"}

\* Data.convert_all, the loop from the k-th key on (every dtype of the tables
\* below is a key of allowed_dtypes_map or allowed)
RECURSIVE convert_all_from(_, _, _)
convert_all_from(self, ks, k) ==
    IF k > Len(ks) THEN self
    ELSE IF self.dtypes[ks[k]] \notin allowed_dtypes
         THEN convert_all_from(
                  convert_dtype(self, ks[k], self.dtypes[ks[k]],
                                allowed_dtypes_map[self.dtypes[ks[k]]]),
                  ks, k + 1)
         ELSE convert_all_from(self, ks, k + 1)

convert_all(self, ks) == convert_all_from(self, ks, 1)

\* Conjunction.bottom_up_init(data_obj, columns=columns), lines 399-400: the
\* data object after the call
bottom_up_init_data(data_obj, columns) ==
    IF data_obj.original_data = None THEN convert_all(data_obj, columns)
    ELSE data_obj

\* Conjunction.bottom_up_init(data_obj, columns=columns), lines 402-409: the
\* predicates of the columns from the k-th on
RECURSIVE bottom_up_init_columns_from(_, _, _)
bottom_up_init_columns_from(data_obj, columns, k) ==
    IF k > Len(columns) THEN <<>>
    ELSE ColumnPredicates(data_obj, columns[k])
         \o bottom_up_init_columns_from(data_obj, columns, k + 1)

\* the list Conjunction.bottom_up_init(data_obj, columns=columns) returns
bottom_up_init_columns(data_obj, columns) ==
    bottom_up_init_columns_from(bottom_up_init_data(data_obj, columns), columns, 1)

\* Tabular objects after extract(data, dtypes): tables of one to MaxRows rows
\* over the columns a and b, each nominal, ordinal or numeric, nothing
\* converted yet
DataObjects ==
    {[columns |-> <<"a", "b">>, dtypes |-> dt, rows |-> rs, original_data |-> None] :
        dt \in [{"a", "b"} -> {"nominal", "ordinal", "numeric"}],
        rs \in UNION {[1 .. n -> [a : 0 .. MaxBin, b : 0 .. 1]] : n \in 1 .. MaxRows}}

\* the column lists passed to bottom_up_init
ColumnLists == {<<"a">>, <<"b">>, <<"a", "b">>}

InitData ==
    /\ data \in DataObjects
    /\ score_f = <<>>
    /\ base_predicates = <<>>
    /\ self_keys = data.columns
    /\ frontier = <<>>
    /\ accepted = <<>>
    /\ rejected = <<>>
    /\ conditionally_accepted = <<>>
    /\ pc = "idle"
    /\ update_f = "expand"
    /\ predicates = None
    /\ maxiters = None
    /\ threshold = 0
    /\ conditional_threshold = None
    /\ i = 0
    /\ predicate = None
    /\ pops = 0
    /\ result = <<>>
    /\ exc = None
    /\ resumed = FALSE

\* base_predicates = Conjunction.bottom_up_init(data_obj, columns=columns) on
\* the data object, new or used by earlier calls
BottomUpInitColumns ==
    /\ pc \in {"idle", "built"}
    /\ \E columns \in ColumnLists :
          /\ data' = bottom_up_init_data(data, columns)
          /\ base_predicates' = bottom_up_init_columns(data, columns)
    /\ pc' = "built"
    /\ UNCHANGED <<self_keys, conditionally_accepted, score_f, lists, args,
                   i, predicate, pops, result, exc, resumed>>

NextData == BottomUpInitColumns

SpecData == InitData /\ [][NextData]_vars

\* C30: after any calls of bottom_up_init on one data object every column the
\* last call has built base predicates for is nominal or ordinal, also a
\* numeric column first asked for after another column has been converted.
C30_AdmissibleDtypes ==
    pc = "built" =>
        \A j \in 1 .. Len(base_predicates) :
            \A c \in DOMAIN base_predicates[j].column_to_values :
                data.dtypes[c] \in {"nominal", "ordinal"}

\* ---- conversions on two Data instances -----------------------------------------
\* the dtypes a caller names in convert_dtype
Dtypes == {"nominal", "ordinal", "numeric"}

\* two Tabular instances, data[1] and data[2], after extract on the same table
InitConvert ==
    /\ \E d \in DataObjects : data = <<d, d>>
    /\ score_f = <<>>
    /\ base_predicates = <<>>
    /\ self_keys = <<"a", "b">>
    /\ frontier = <<>>
    /\ accepted = <<>>
    /\ rejected = <<>>
    /\ conditionally_accepted = <<>>
    /\ pc = "idle"
    /\ update_f = "expand"
    /\ predicates = None
    /\ maxiters = None
    /\ threshold = 0
    /\ conditional_threshold = None
    /\ i = 0
    /\ predicate = None
    /\ pops = 0
    /\ result = <<>>
    /\ exc = None
    /\ resumed = FALSE

\* data[n].convert_dtype(key, old_dtype, new_dtype)
ConvertDtype ==
    /\ \E n \in 1 .. 2 : \E key \in {"a", "b"} : \E old_dtype, new_dtype \in Dtypes :
          data' = [data EXCEPT ![n] = convert_dtype(@, key, old_dtype, new_dtype)]
    /\ UNCHANGED <<base_predicates, self_keys, conditionally_accepted, score_f, lists,
                   pc, args, i, predicate, pops, result, exc, resumed>>

\* data[n].convert_all(allowed_dtypes_map, allowed_dtypes, keys)
ConvertAll ==
    /\ \E n \in 1 .. 2 : \E ks \in ColumnLists :
          data' = [data EXCEPT ![n] = convert_all(@, ks)]
    /\ UNCHANGED <<base_predicates, self_keys, conditionally_accepted, score_f, lists,
                   pc, args, i, predicate, pops, result, exc, resumed>>

NextConvert == ConvertDtype \/ ConvertAll

SpecConvert == InitConvert /\ [][NextConvert]_vars

\* the instance d becomes e in a step that keeps a shadow d has, and writes
\* a shadow d does not have only as the rows and dtypes of d
ShadowKept(d, e) ==
    IF d.original_data # None
    THEN e.original_data = d.original_data
    ELSE \/ e = d
         \/ e.original_data = Some([rows |-> d.rows, dtypes |-> d.dtypes])

\* C31: over any conversions the shadow of an instance is absent until its
\* first successful conversion, is then the rows and dtypes as they were just
\* before it, and is never written again; a step changes one instance at most;
\* convert_dtype with a pair other than numeric to ordinal changes nothing.
C31_ShadowWriteOnce ==
    [][/\ \A n \in 1 .. 2 : ShadowKept(data[n], data'[n])
       /\ data'[1] = data[1] \/ data'[2] = data[2]
       /\ \A n \in 1 .. 2 : \A key \in {"a", "b"} : \A old_dtype, new_dtype \in Dtypes :
             <<old_dtype, new_dtype>> # <<"numeric", "ordinal">> =>
                 convert_dtype(data[n], key, old_dtype, new_dtype) = data[n]
    ]_vars

\* one instance has been converted twice, so that its table differs from its
\* shadow on both columns, and the other instance has no shadow
C31_Witness ==
    \E n \in 1 .. 2 :
       /\ data[n].original_data # None
       /\ data[n].dtypes = [a |-> "ordinal", b |-> "ordinal"]
       /\ data[n].original_data[1].dtypes = [a |-> "numeric", b |-> "numeric"]
       /\ \E m \in 1 .. Len(data[n].rows) :
             /\ data[n].rows[m].a # data[n].original_data[1].rows[m].a
             /\ data[n].rows[m].b # data[n].original_data[1].rows[m].b
       /\ data[3 - n].original_data = None

\* the frontier of the state without the entry the iteration pops
WithoutPopped == RemoveAt(frontier, get_first_index(frontier, predicates))

\* C32: an iteration that inserts no child into the frontier puts the popped
\* predicate p once into accepted or rejected; an iteration that inserts a
\* child puts p into neither; p is not put back into the frontier.
C32_FateOfPopped ==
    [][Iteration =>
        LET p == predicate'[1]
        IN  /\ Count(frontier', p) = Count(WithoutPopped, p)
            /\ Count(accepted', p) + Count(rejected', p) =
                  Count(accepted, p) + Count(rejected, p)
                  + (IF Len(frontier') > Len(WithoutPopped) THEN 0 ELSE 1)
    ]_vars

\* after an earlier predicate was accepted or rejected, the predicate popped
\* last got a child into the frontier and is in none of the three lists
C32_Witness ==
    /\ pc = "loop"
    /\ pops >= 2
    /\ Len(accepted) + Len(rejected) >= 1
    /\ IF predicate = None THEN FALSE
       ELSE /\ Count(frontier, predicate[1]) = 0
            /\ Count(accepted, predicate[1]) = 0
            /\ Count(rejected, predicate[1]) = 0

\* C33: in an engine started with an empty accepted list, accepted never holds
\* two equal conjunctions, also when the frontier has held the same
\* conjunction twice, made of different parents.
C33_NoDuplicatesAccepted ==
    \A j, k \in 1 .. Len(accepted) : j < k => ~Eq(accepted[j], accepted[k])

\* a conjunction of two columns that reached the frontier twice has been
\* accepted once and rejected once
C33_Witness ==
    \E j \in 1 .. Len(accepted) : \E k \in 1 .. Len(rejected) :
       /\ Eq(accepted[j], rejected[k])
       /\ Cardinality(DOMAIN accepted[j].column_to_values) = 2

\* ---------------------------------------------------------------------
\* Adjacency of the predicates of the search (merge, lines 359-364;
\* expand_predicate_key, lines 476-489)

\* the predicates the engine holds: the base predicates, the three
\* collections and the predicate popped last
Reached ==
    Range(base_predicates) \cup Range(frontier) \cup Range(accepted)
        \cup Range(rejected) \cup Range(predicate)

\* no adjacent predicate of p along column is contained by p along it
PointsOutward(p, column) ==
    \A v \in Range(AdjacentOf(p, column)) : v \notin p.column_to_values[column]

\* every child expand_predicate_key builds from p along column has more
\* values along it than p
ExpandEnlarges(p, column) ==
    LET cands == ExpandCandidates(data, p, column)
    IN  \A j \in 1 .. Len(cands) :
           LET m == merge(data, p, cands[j])
           IN  /\ p.column_to_values[column] \subseteq m.column_to_values[column]
               /\ p.column_to_values[column] # m.column_to_values[column]

\* C34: adjacency never points inward: for every predicate reached from
\* the base predicates by expand and refine and every column it has an
\* adjacency list for, no adjacent predicate is contained along that
\* column by the predicate, and every expand merge along it strictly
\* enlarges the values of the column
C34_AdjacencyPointsOutward ==
    \A p \in Reached : \A column \in DOMAIN p.adjacent :
       /\ column \in DOMAIN p.column_to_values
       /\ PointsOutward(p, column)
       /\ ExpandEnlarges(p, column)

\* a predicate merged along an ordinal column that still has an adjacent
\* predicate left along it
C34_Witness ==
    \E p \in Range(frontier) \cup Range(accepted) \cup Range(rejected) :
       /\ "a" \in DOMAIN p.adjacent
       /\ Cardinality(p.column_to_values["a"]) >= 2
       /\ AdjacentOf(p, "a") # <<>>

\* ---------------------------------------------------------------------
\* Moves between the collections (move_predicate, lines 119-131;
\* update_accepted_rejected_predicate, lines 133-180)

\* how many entries equal to p the list l loses in the step
Lost(l, m, p) == IF Count(l, p) > Count(m, p) THEN Count(l, p) - Count(m, p) ELSE 0

\* how many entries equal to p the list l gains in the step
Gained(l, m, p) == Lost(m, l, p)

\* C35: rejected is monotone: in every step of every call no predicate is
\* removed from rejected; a predicate that leaves accepted enters rejected;
\* and the predicates that enter the frontier are children of the popped
\* predicate, never the popped predicate or former entries of accepted or
\* rejected
C35_RejectedMonotone ==
    [][/\ \A p \in Range(rejected) : Lost(rejected, rejected', p) = 0
       /\ \A p \in Range(accepted) :
             Lost(accepted, accepted', p) <= Gained(rejected, rejected', p)
       /\ \A p \in Range(frontier') :
             Gained(frontier, frontier', p) > 0 =>
                /\ Iteration
                /\ p \in Range(Children(score_f', update_f, predicate'[1]))
                /\ p # predicate'[1]
       /\ \A p \in Range(frontier) :
             Lost(frontier, frontier', p) > 0 =>
                Iteration /\ p = predicate'[1] /\ Lost(frontier, frontier', p) = 1
    ]_vars

\* the popped predicate is accepted and a predicate it contains, of lower
\* score above the threshold, is in rejected
C35_Witness ==
    /\ pc = "loop"
    /\ pops >= 2
    /\ accepted = <<predicate[1]>>
    /\ \E q \in Range(rejected) :
          /\ is_contained(q, predicate[1])
          /\ Score(q) > threshold
          /\ Score(q) < Score(predicate[1])

\* ---------------------------------------------------------------------
\* The finaliser and the state of the engine (get_predicates, lines
\* 355-366; greedy_merge_frontier, lines 252-277; greedy_merge, lines
\* 211-232)

\* the step runs get_predicates: the call returns, or raises in the finaliser
Finalises ==
    /\ pc = "loop"
    /\ pc' \in {"returned", "raised"}
    /\ exc' # Some("IndexError")

\* the predicates the engine holds in its four lists
Held(f, a, r, c) == Range(f) \cup Range(a) \cup Range(r) \cup Range(c)

\* C36: the finaliser is read-only on the state of the engine:
\* get_predicates leaves frontier, accepted, rejected and
\* conditionally_accepted as they were, and a coalesced predicate (one of
\* the returned list that the engine did not hold) is in none of them
C36_FinaliserReadOnly ==
    [][Finalises =>
          /\ frontier' = frontier
          /\ accepted' = accepted
          /\ rejected' = rejected
          /\ conditionally_accepted' = conditionally_accepted
          /\ \A p \in Range(result') :
                p \notin Held(frontier, accepted, rejected, conditionally_accepted)
                => p \notin Held(frontier', accepted', rejected',
                                 conditionally_accepted')
    ]_vars

\* a call has returned a coalesced predicate while the frontier holds the
\* predicates it was coalesced from
C36_Witness ==
    /\ pc = "returned"
    /\ conditional_threshold # None
    /\ frontier # <<>>
    /\ \E p \in Range(result) :
          /\ p \notin Held(frontier, accepted, rejected, conditionally_accepted)
          /\ \E q \in Range(frontier) : is_contained(q, p) /\ ~Eq(q, p)

\* ---------------------------------------------------------------------
\* Calls resumed on one engine (get_predicates_maxiters, lines 377-400;
\* __init__, lines 22-42)

\* engines on the table of two columns; score_f is given on every mask
InitResume ==
    /\ data = TableAB
    /\ score_f \in [SUBSET AllRows(data) -> Scores]
    /\ InitEngine
    /\ self_keys = data.columns

\* a call without conditional_threshold on the new engine
CallUnconditional ==
    /\ Call
    /\ conditional_threshold' = None

\* a second call without conditional_threshold on the engine the first call
\* has left, with the same update rule and threshold
ResumeUnconditional ==
    /\ CallAgain
    /\ conditional_threshold' = None

NextResume ==
    \/ CallUnconditional
    \/ Iterate
    \/ Return
    \/ ResumeUnconditional

SpecResume == InitResume /\ [][NextResume]_vars

\* the second call starts: both calls are given a number of iterations and
\* no conditional_threshold
Resumes ==
    /\ pc = "returned"
    /\ pc' = "loop"
    /\ ~resumed
    /\ conditional_threshold = None
    /\ conditional_threshold' = None
    /\ maxiters # None
    /\ maxiters' # None

\* the second call returns from a frontier that was empty when it started
ReturnsDrained ==
    /\ pc = "loop"
    /\ pc' = "returned"
    /\ resumed
    /\ i = 0
    /\ frontier = <<>>
    /\ conditional_threshold = None

\* the frontier, accepted and rejected of the engine e and the list a call
\* without conditional_threshold returns on it
Outcome(e) ==
    [frontier |-> e.frontier, accepted |-> e.accepted, rejected |-> e.rejected,
     value    |-> get_predicates(e.data, e.score_f, e.frontier, e.accepted,
                                 <<>>, None).value]

\* C37: the search is resumable: with conditional_threshold unset and the
\* same update rule and threshold, a call with maxiters = m followed by a
\* call with maxiters = n leaves the same frontier, accepted and rejected
\* and returns the same list as one call with maxiters = m + n on the new
\* engine; a further call on a drained engine returns the same list again
C37_ResumableSearch ==
    [][/\ Resumes =>
             Outcome(main_loop(Engine(score_f), update_f, maxiters', threshold, 0))
             = Outcome(main_loop(EngineBuilt(self_keys), update_f,
                                 Some(maxiters[1] + maxiters'[1]), threshold, 0))
       /\ ReturnsDrained =>
             /\ result' = result
             /\ UNCHANGED lists
    ]_vars

\* two calls of one iteration each have returned and left predicates in the
\* frontier
C37_Witness ==
    /\ pc = "returned"
    /\ resumed
    /\ conditional_threshold = None
    /\ maxiters = Some(MaxIters)
    /\ i = MaxIters
    /\ frontier # <<>>
    /\ Len(accepted) + Len(rejected) >= 2
====
